---- MODULE Spec2Model ----
(***************************************************************************)
(* A model of stac-geoparquet: the batcher (batched_iter), the JSON reader *)
(* (read_json), the schema-strategy orchestrator                           *)
(* (parse_stac_items_to_arrow and its callers) and the item <-> Arrow      *)
(* conversions of StacJsonBatch / StacArrowBatch.                          *)
(***************************************************************************)
EXTENDS Integers, Sequences, FiniteSets, TLC

VARIABLES
    \* ---- batched_iter, run as a generator on its own
    bi_in,      \* the iterable handed to batched_iter
    bi_n,       \* its parameter n
    bi_it,      \* what the iterator `it` has not produced yet
    bi_out,     \* the batches yielded so far, in order
    bi_pc,      \* "start" | "loop" | "done" | "raised"
    \* ---- read_json, run as a generator on its own
    rj_desc,    \* per path: how the file was written (shape, items, layout, trail)
    rj_files,   \* per path: the file's content, a sequence of tokens
    rj_p,       \* index of the path the `for p in path` loop is at
    rj_line,    \* index of the next line `for line in f` will produce
    rj_out,     \* the items yielded so far, in order
    rj_pc,      \* "next" | "lines" | "done" | "raised" | "closed"
    rj_err,     \* "" or the exception that left the generator
    rj_open,    \* the indices of the paths whose file is open
    \* ---- one invocation of the pipeline and the consumer of its stream
    p_args,     \* the call: entry, strategy, chunk_size, limit, tmpdir
    p_given,    \* the schema the chunks are encoded under, or NoSchema
    p_items,    \* the input items (for the NDJSON entry: the items of the files)
    p_pc,       \* "call" | "stream" | "returning" | "done" | "raised"
    p_declared, \* the schema of the reader that was returned
    p_held,     \* batches the reader holds and has not yielded yet
    p_rest,     \* input items the reader's generator has not encoded yet
    p_out,      \* the batches the consumer has pulled, in order
    p_err,      \* "" or the exception raised by the call or by a pull
    p_tmp,      \* "none" | "caller" | "own" | "removed": the temporary directory
    p_dir,      \* the files of the temporary directory
    p_cnt,      \* number of chunks this invocation has spilled
    p_run,      \* which invocation on the caller's directory this is
    p_decoded,  \* what stac_table_to_items made of the stream: [err, items]
    p_taken,    \* how many items have been taken from the input iterator
    \* ---- one batch through the conversions of StacJsonBatch / StacArrowBatch
    n_items,    \* the items handed to from_dicts
    n_downcast, \* the downcast argument of the normalization
    n_raw,      \* StacJsonBatch.from_dicts(items)
    n_arrow,    \* the normalized batch made of n_raw
    n_json,     \* StacArrowBatch(n_arrow).to_json_batch()
    n_again,    \* n_json.to_arrow_batch()
    n_dicts,    \* n_json.iter_dicts(), as [err, items]
    n_pc,       \* "items" | "raw" | "arrow" | "json" | "raised"
    \* ---- one call of to_parquet
    w_args,     \* schema_version, collections, collection_metadata
    w_items,    \* the items the table was made of
    w_schema,   \* the schema of the table
    w_rest,     \* the batches of the table the writer has not written yet
    w_meta,     \* the metadata of the schema the writer was opened with
    w_rows,     \* the rows written
    w_warned,   \* the warnings issued, in order
    w_err,      \* "" or the exception to_parquet raised
    w_pc,       \* "call" | "writing" | "done" | "raised"
    \* ---- calls of stac_table_to_ndjson on one destination
    d_dest,     \* the lines of the file at dest
    d_before,   \* the lines it had when the call at hand began
    d_table,    \* the batches of the table of the call at hand
    d_rest,     \* those the loop has not reached yet
    d_calls,    \* the calls begun so far
    d_err,      \* "" or the exception the call at hand raised
    d_pc,       \* "ready" | "loop" | "raised"
    \* ---- one call of find_json_chunks
    f_file,     \* the bytes of input_file
    f_prev,     \* previous_chunk_offset
    f_off,      \* byte_offset
    f_pos,      \* the position of input_file
    f_ranges,   \* chunk_ranges
    f_pc        \* "chunk" | "search" | "done" | "raised"

bi_vars == <<bi_in, bi_n, bi_it, bi_out, bi_pc>>

rj_vars == <<rj_desc, rj_files, rj_p, rj_line, rj_out, rj_pc, rj_err, rj_open>>

p_vars == <<p_args, p_given, p_items, p_pc, p_declared, p_held, p_rest, p_out,
            p_err, p_tmp, p_dir, p_cnt, p_run, p_decoded, p_taken>>

n_vars == <<n_items, n_downcast, n_raw, n_arrow, n_json, n_again, n_dicts, n_pc>>

\* the parts that the batcher, the reader and the pipeline never touch
w_vars == <<w_args, w_items, w_schema, w_rest, w_meta, w_rows, w_warned, w_err, w_pc>>

d_vars == <<d_dest, d_before, d_table, d_rest, d_calls, d_err, d_pc>>

f_vars == <<f_file, f_prev, f_off, f_pos, f_ranges, f_pc>>

x_vars == <<n_vars, w_vars, d_vars, f_vars>>

vars == <<bi_in, bi_n, bi_it, bi_out, bi_pc,
          rj_desc, rj_files, rj_p, rj_line, rj_out, rj_pc, rj_err, rj_open,
          p_args, p_given, p_items, p_pc, p_declared, p_held, p_rest, p_out,
          p_err, p_tmp, p_dir, p_cnt, p_run, p_decoded, p_taken,
          n_items, n_downcast, n_raw, n_arrow, n_json, n_again, n_dicts, n_pc,
          w_args, w_items, w_schema, w_rest, w_meta, w_rows, w_warned, w_err, w_pc,
          d_dest, d_before, d_table, d_rest, d_calls, d_err, d_pc,
          f_file, f_prev, f_off, f_pos, f_ranges, f_pc>>

\* a part of the program that a specification does not run
BatchIdle ==
    /\ bi_in = <<>>
    /\ bi_n = 1
    /\ bi_it = <<>>
    /\ bi_out = <<>>
    /\ bi_pc = "idle"

ReadIdle ==
    /\ rj_desc = <<>>
    /\ rj_files = <<>>
    /\ rj_p = 1
    /\ rj_line = 1
    /\ rj_out = <<>>
    /\ rj_pc = "idle"
    /\ rj_err = ""
    /\ rj_open = {}

PipeIdle ==
    /\ p_args = <<>>
    /\ p_given = <<>>
    /\ p_items = <<>>
    /\ p_pc = "idle"
    /\ p_declared = <<>>
    /\ p_held = <<>>
    /\ p_rest = <<>>
    /\ p_out = <<>>
    /\ p_err = ""
    /\ p_tmp = "none"
    /\ p_dir = <<>>
    /\ p_cnt = 0
    /\ p_run = 1
    /\ p_decoded = <<>>
    /\ p_taken = 0

NormIdle ==
    /\ n_items = <<>>
    /\ n_downcast = FALSE
    /\ n_raw = <<>>
    /\ n_arrow = <<>>
    /\ n_json = <<>>
    /\ n_again = <<>>
    /\ n_dicts = <<>>
    /\ n_pc = "idle"

WriteIdle ==
    /\ w_args = <<>>
    /\ w_items = <<>>
    /\ w_schema = <<>>
    /\ w_rest = <<>>
    /\ w_meta = <<>>
    /\ w_rows = <<>>
    /\ w_warned = <<>>
    /\ w_err = ""
    /\ w_pc = "idle"

NdjsonIdle ==
    /\ d_dest = <<>>
    /\ d_before = <<>>
    /\ d_table = <<>>
    /\ d_rest = <<>>
    /\ d_calls = 0
    /\ d_err = ""
    /\ d_pc = "idle"

ChunksIdle ==
    /\ f_file = <<>>
    /\ f_prev = 0
    /\ f_off = 0
    /\ f_pos = 0
    /\ f_ranges = <<>>
    /\ f_pc = "idle"

ExtIdle == NormIdle /\ WriteIdle /\ NdjsonIdle /\ ChunksIdle

\* ------------------------------------------------------------------ bounds
MaxBatchLen == 5      \* longest iterable handed to batched_iter on its own
MaxBatchN == 3        \* largest n handed to batched_iter on its own
MaxFileItems == 2     \* most items written into one input file

\* ------------------------------------------------------------ small helpers
Min(a, b) == IF a < b THEN a ELSE b

SeqsUpTo(S, n) == UNION {[1..k -> S] : k \in 0..n}

IsPrefix(a, b) == Len(a) <= Len(b) /\ a = SubSeq(b, 1, Len(a))

RECURSIVE Flatten(_)
Flatten(ss) == IF ss = <<>> THEN <<>> ELSE Head(ss) \o Flatten(Tail(ss))

\* ------------------------------------------------------------ batched_iter
\* itertools.islice(it, n) as batched_iter uses it: the next (at most n) items.
islice_takes_one_more(it, n) == SubSeq(it, 1, Min(n + 1, Len(it)))

islice(it, n) == SubSeq(it, 1, Min(n, Len(it)))

\* what is left in the iterator once `taken` items were produced
Advance(it, taken) == SubSeq(it, Len(taken) + 1, Len(it))

\* the batches batched_iter(lst, n) yields when it is run to its end (n >= 1)
RECURSIVE batched_iter(_, _)
batched_iter(lst, n) ==
    LET batch == islice(lst, n)
    IN  IF batch = <<>> THEN <<>>
        ELSE <<batch>> \o batched_iter(Advance(lst, batch), n)


\* --------------------------------------------------------------- read_json
\* A file is a sequence of tokens.  An item token stands for the JSON text of
\* one STAC item (an object without a "features" key); "{F" stands for the
\* opening of a FeatureCollection object up to and including its "features"
\* key, "}" for its closing brace; " " and "NL" are a space and a line break.
ItemToks == {"i1", "i2", "i3"}
WsToks == {" ", "NL"}

RECURSIVE SplitLines(_, _)
\* Python's `for line in f`: lines keep their terminator; a last line without
\* one is produced when it is not empty.
SplitLines(f, cur) ==
    IF f = <<>> THEN (IF cur = <<>> THEN <<>> ELSE <<cur>>)
    ELSE IF Head(f) = "NL" THEN <<Append(cur, "NL")>> \o SplitLines(Tail(f), <<>>)
    ELSE SplitLines(Tail(f), Append(cur, Head(f)))

FileLines(f) == SplitLines(f, <<>>)

RECURSIVE LStrip(_)
LStrip(s) == IF s # <<>> /\ Head(s) \in WsToks THEN LStrip(Tail(s)) ELSE s

RECURSIVE RStrip(_)
RStrip(s) ==
    IF s # <<>> /\ s[Len(s)] \in WsToks THEN RStrip(SubSeq(s, 1, Len(s) - 1)) ELSE s

\* str.strip()
Strip(s) == RStrip(LStrip(s))

\* JSON white space between tokens carries no meaning
RECURSIVE DropWs(_)
DropWs(s) ==
    IF s = <<>> THEN <<>>
    ELSE IF Head(s) \in WsToks THEN DropWs(Tail(s))
    ELSE <<Head(s)>> \o DropWs(Tail(s))

\* item (, item)* or nothing
IsElems(s) ==
    \/ s = <<>>
    \/ /\ Len(s) % 2 = 1
       /\ \A i \in 1..Len(s) :
             IF i % 2 = 1 THEN s[i] \in ItemToks ELSE s[i] = ","

ElemsOf(s) == [i \in 1..((Len(s) + 1) \div 2) |-> s[2 * i - 1]]

JSONDecodeError == [kind |-> "error", items |-> <<>>]

\* orjson.loads: the parsed value as [kind, items]; kind "item" is a dict
\* without "features", "list" a JSON array, "fc" a dict with "features".
loads(text) ==
    LET t == DropWs(text)
        n == Len(t)
    IN  IF n = 1 /\ t[1] \in ItemToks
        THEN [kind |-> "item", items |-> t]
        ELSE IF n >= 2 /\ t[1] = "[" /\ t[n] = "]" /\ IsElems(SubSeq(t, 2, n - 1))
        THEN [kind |-> "list", items |-> ElemsOf(SubSeq(t, 2, n - 1))]
        ELSE IF /\ n >= 4
                /\ t[1] = "{F" /\ t[2] = "[" /\ t[n - 1] = "]" /\ t[n] = "}"
                /\ IsElems(SubSeq(t, 3, n - 2))
        THEN [kind |-> "fc", items |-> ElemsOf(SubSeq(t, 3, n - 2))]
        ELSE JSONDecodeError

\* ---- how the input files are written
RECURSIVE JoinWith(_, _)
JoinWith(items, sep) ==
    IF items = <<>> THEN <<>>
    ELSE IF Len(items) = 1 THEN <<items[1]>>
    ELSE <<items[1]>> \o sep \o JoinWith(Tail(items), sep)

Render(shape, items, layout) ==
    CASE shape = "ndjson" -> JoinWith(items, <<"NL">>)
      [] shape = "array" /\ layout = "oneline" ->
            <<"[">> \o JoinWith(items, <<",">>) \o <<"]">>
      [] shape = "array" /\ layout = "spread" ->
            <<"[", "NL">> \o JoinWith(items, <<",", "NL">>) \o <<"NL", "]">>
      [] shape = "fc" /\ layout = "oneline" ->
            <<"{F", "[">> \o JoinWith(items, <<",">>) \o <<"]", "}">>
      [] shape = "fc" /\ layout = "spread" ->
            <<"{F", " ", "[", "NL">> \o JoinWith(items, <<",", "NL">>)
                \o <<"NL", "]", "NL", "}">>

Shapes == {"ndjson", "array", "fc"}
Layouts(shape) == IF shape = "ndjson" THEN {"oneline"} ELSE {"oneline", "spread"}

\* white space after the last record
Trails == {<<>>, <<"NL">>, <<" ">>, <<" ", "NL">>, <<"NL", "NL">>, <<"NL", " ">>}

FileDescs(itemset, trails) ==
    {[shape |-> sh, items |-> its, layout |-> ly, trail |-> tr] :
        sh \in Shapes, its \in SeqsUpTo(itemset, MaxFileItems),
        ly \in {"oneline", "spread"}, tr \in trails}

WellFormedDesc(d) ==
    /\ d.layout \in Layouts(d.shape)
    \* white space "after the last record" needs a record
    /\ (d.shape = "ndjson" /\ d.items = <<>> => d.trail = <<>>)

FileOf(d) == Render(d.shape, d.items, d.layout) \o d.trail

FirstFiles == {d \in FileDescs({"i1", "i2"}, Trails) : WellFormedDesc(d)}
LaterFiles == {d \in FileDescs({"i3"}, {<<>>}) : WellFormedDesc(d)}

ReadInit ==
    /\ BatchIdle
    /\ PipeIdle
    /\ ExtIdle
    /\ rj_desc \in {<<d>> : d \in FirstFiles}
                   \cup {<<d, e>> : d \in FirstFiles, e \in LaterFiles}
    /\ rj_files = [i \in 1..Len(rj_desc) |-> FileOf(rj_desc[i])]
    /\ rj_p = 1
    /\ rj_line = 1
    /\ rj_out = <<>>
    /\ rj_pc = "next"
    /\ rj_err = ""
    /\ rj_open = {}

\* `for p in path: with open(p) as f:` -- the next file is opened, or the
\* generator returns
ReadJsonOpen ==
    /\ rj_pc = "next"
    /\ IF rj_p > Len(rj_files)
       THEN /\ rj_pc' = "done"
            /\ UNCHANGED rj_open
       ELSE /\ rj_pc' = "lines"
            /\ rj_open' = rj_open \cup {rj_p}
    /\ rj_line' = 1
    /\ UNCHANGED <<rj_desc, rj_files, rj_p, rj_out, rj_err>>
    /\ UNCHANGED bi_vars
    /\ UNCHANGED <<p_vars, x_vars>>

\* the members a parsed line contributes (lines 25-30): `yield from item`,
\* `yield from item["features"]` or `yield item`
LineYield_first_member(v) == IF v.items = <<>> THEN <<>> ELSE <<v.items[1]>>

LineYield(v) == v.items

\* the `except orjson.JSONDecodeError` branch (lines 32-38) on file f:
\* what it yields, and the exception that leaves it ("" when none)
Fallback(f) ==
    LET json == loads(f)
    IN  IF json.kind = "error" THEN [items |-> <<>>, err |-> "JSONDecodeError"]
        ELSE IF json.kind = "list" THEN [items |-> json.items, err |-> ""]
        ELSE IF json.kind = "fc" THEN [items |-> json.items, err |-> ""]
        ELSE [items |-> <<>>, err |-> "KeyError"]

\* a file closed by hand after the loop: an exception leaves it open
LeaveWith_on_return_only(open, p, err) == IF err = "" THEN open \ {p} ELSE open

\* `with open(p) as f:` is left, by running off its end or by the exception
\* err passing through it: the file is closed
LeaveWith(open, p, err) == open \ {p}

\* one turn of `for line in f` (with the except branch when the line does not
\* parse), or the end of the file
ReadJsonLine ==
    /\ rj_pc = "lines"
    /\ LET f == rj_files[rj_p]
           lines == FileLines(f)
       IN  IF rj_line > Len(lines)
           THEN \* end of file: leave the with block, next path
                /\ rj_p' = rj_p + 1
                /\ rj_pc' = "next"
                /\ rj_open' = LeaveWith(rj_open, rj_p, "")
                /\ UNCHANGED <<rj_line, rj_out, rj_err>>
           ELSE LET item == loads(Strip(lines[rj_line]))
                IN  IF item.kind # "error"
                    THEN /\ rj_out' = rj_out \o LineYield(item)
                         /\ rj_line' = rj_line + 1
                         /\ UNCHANGED <<rj_p, rj_pc, rj_err, rj_open>>
                    ELSE LET fb == Fallback(f)
                         IN  /\ rj_out' = rj_out \o fb.items
                             /\ rj_err' = fb.err
                             /\ rj_open' = LeaveWith(rj_open, rj_p, fb.err)
                             /\ IF fb.err = ""
                                THEN /\ rj_p' = rj_p + 1
                                     /\ rj_pc' = "next"
                                ELSE /\ rj_pc' = "raised"
                                     /\ UNCHANGED rj_p
                             /\ UNCHANGED rj_line
    /\ UNCHANGED <<rj_desc, rj_files>>
    /\ UNCHANGED bi_vars
    /\ UNCHANGED <<p_vars, x_vars>>

\* the consumer stops early and closes the generator: GeneratorExit is raised
\* at the yield it is suspended at, inside the with block, or the generator
\* had not started
ReadJsonClose ==
    /\ \/ rj_pc = "lines"
       \/ rj_pc = "next" /\ rj_p = 1
    /\ rj_pc' = "closed"
    /\ rj_open' = IF rj_pc = "lines" THEN LeaveWith(rj_open, rj_p, "GeneratorExit")
                  ELSE rj_open
    /\ UNCHANGED <<rj_desc, rj_files, rj_p, rj_line, rj_out, rj_err>>
    /\ UNCHANGED bi_vars
    /\ UNCHANGED <<p_vars, x_vars>>

ReadNext == ReadJsonOpen \/ ReadJsonLine \/ ReadJsonClose

SpecRead == ReadInit /\ [][ReadNext]_vars

\* ------------------------------------------------------ STAC items as JSON
\* A JSON value is a string (a scalar, by its text), a sequence of scalars
\* (bbox) or a record (an object).  NULL is JSON null, Python None, and a null
\* Arrow cell.
NULL == "null"

IntLits == {"1"}
FloatLits == {"1.0", "1.5"}
WkbVals == {"wkb:Point", "wkb:Polygon"}

\* the number a literal denotes, in tenths
NumVal(v) == CASE v = "1" -> 10 [] v = "1.0" -> 10 [] v = "1.5" -> 15

\* a Python int stored in a double column reads back as a float
IntToFloat(v) == CASE v = "1" -> "1.0" [] OTHER -> v

\* shapely.to_wkb(shapely.geometry.shape(g), flavor="iso"); g is not None
to_wkb(g) == CASE g = "Point" -> "wkb:Point" [] g = "Polygon" -> "wkb:Polygon"

\* shapely.from_wkb(w).__geo_interface__ with its coordinates as lists; w is
\* not null
from_wkb(w) == CASE w = "wkb:Point" -> "Point" [] w = "wkb:Polygon" -> "Polygon"

\* the columns converted to timestamps and back (allowed_column_names)
TimestampColumns ==
    {"datetime", "start_datetime", "end_datetime", "created", "updated",
     "expires", "published", "unpublished"}

TsStrings == {"2020-01-01T00:00:00Z", "2020-01-01T02:00:00+02:00"}

\* ciso8601.parse_rfc3339: the instant, in UTC
parse_rfc3339(t) ==
    CASE t = "2020-01-01T00:00:00Z" -> "ts:2020-01-01T00:00:00"
      [] t = "2020-01-01T02:00:00+02:00" -> "ts:2020-01-01T00:00:00"

\* pc.strftime(column, format="%Y-%m-%dT%H:%M:%SZ"); a null cell stays null
strftime(t) ==
    CASE t = "ts:2020-01-01T00:00:00" -> "2020-01-01T00:00:00Z"
      [] t = NULL -> NULL

\* the item kinds the inputs are drawn from (an item is a kind and an id)
KindPlain ==
    [geometry |-> "Point", bbox |-> <<"0", "1", "2", "3">>,
     properties |-> [datetime |-> "2020-01-01T00:00:00Z"],
     assets |-> [image |-> [href |-> "a.tif"]]]

\* one more property (an integer), one more asset, datetime with an offset
KindGsdInt ==
    [geometry |-> "Polygon", bbox |-> <<"0", "1", "2", "3">>,
     properties |-> [datetime |-> "2020-01-01T02:00:00+02:00", gsd |-> "1"],
     assets |-> [image |-> [href |-> "a.tif"], thumb |-> [href |-> "t.png"]]]

\* the same property as a float
KindGsdFloat ==
    [geometry |-> "Point", bbox |-> <<"0", "1", "2", "3">>,
     properties |-> [datetime |-> "2020-01-01T00:00:00Z", gsd |-> "1.5"],
     assets |-> [image |-> [href |-> "a.tif"]]]

\* a projected geometry in the properties ("proj:geometry")
KindProj ==
    [geometry |-> "Point", bbox |-> <<"0", "1", "2", "3">>,
     properties |-> [datetime |-> "2020-01-01T00:00:00Z",
                     proj_geometry |-> "Polygon"],
     assets |-> [image |-> [href |-> "a.tif"]]]

\* a 3D bbox
Kind3D ==
    [geometry |-> "Point", bbox |-> <<"0", "1", "2", "3", "4", "5">>,
     properties |-> [datetime |-> "2020-01-01T00:00:00Z"],
     assets |-> [image |-> [href |-> "a.tif"]]]

\* "geometry": null
KindNullGeom ==
    [geometry |-> NULL, bbox |-> <<"0", "1", "2", "3">>,
     properties |-> [datetime |-> "2020-01-01T00:00:00Z"],
     assets |-> [image |-> [href |-> "a.tif"]]]

\* a property named like the top-level field "id"
KindPropId ==
    [geometry |-> "Point", bbox |-> <<"0", "1", "2", "3">>,
     properties |-> [datetime |-> "2020-01-01T00:00:00Z", id |-> "inner"],
     assets |-> [image |-> [href |-> "a.tif"]]]

\* "datetime": null, with the interval given instead
KindNullDatetime ==
    [geometry |-> "Point", bbox |-> <<"0", "1", "2", "3">>,
     properties |-> [datetime |-> NULL,
                     start_datetime |-> "2020-01-01T00:00:00Z",
                     end_datetime |-> "2020-01-01T02:00:00+02:00"],
     assets |-> [image |-> [href |-> "a.tif"]]]

\* "datetime" given as a number
KindNumDatetime ==
    [geometry |-> "Point", bbox |-> <<"0", "1", "2", "3">>,
     properties |-> [datetime |-> "1"],
     assets |-> [image |-> [href |-> "a.tif"]]]

\* a bbox of five numbers
KindBbox5 ==
    [geometry |-> "Point", bbox |-> <<"0", "1", "2", "3", "4">>,
     properties |-> [datetime |-> "2020-01-01T00:00:00Z"],
     assets |-> [image |-> [href |-> "a.tif"]]]

\* a projected geometry in an asset only
KindAssetProj ==
    [geometry |-> "Point", bbox |-> <<"0", "1", "2", "3">>,
     properties |-> [datetime |-> "2020-01-01T00:00:00Z"],
     assets |-> [image |-> [href |-> "a.tif", proj_geometry |-> "Polygon"]]]

\* a second asset, which has a projected geometry
KindThumbProj ==
    [geometry |-> "Point", bbox |-> <<"0", "1", "2", "3">>,
     properties |-> [datetime |-> "2020-01-01T00:00:00Z"],
     assets |-> [image |-> [href |-> "a.tif"],
                 thumb |-> [href |-> "t.png", proj_geometry |-> "Polygon"]]]

Kinds == {KindPlain, KindGsdInt, KindGsdFloat, KindProj, Kind3D, KindNullGeom}

MkItem(i, kind) == [id |-> i] @@ kind

\* ------------------------------------------------------------ Arrow values
\* A schema is a record from field names to types; a leaf type is a string, a
\* struct type a record of its fields' types.  A batch is [err, schema, rows],
\* err = "" unless building it raised; a row is a record over the schema's
\* fields.  A null struct cell is NullStruct.
NullStruct == [is_null |-> NULL]

IsNullStruct(c) == "is_null" \in DOMAIN c

Raised(e) == [err |-> e, schema |-> <<>>, rows |-> <<>>]

Batch(schema, rows) == [err |-> "", schema |-> schema, rows |-> rows]

Range(f) == {f[x] : x \in DOMAIN f}

\* pyarrow's type inference for one Python scalar
LeafType(v) ==
    IF v = NULL THEN "null"
    ELSE IF v \in IntLits THEN "int64"
    ELSE IF v \in FloatLits THEN "double"
    ELSE IF v \in WkbVals THEN "binary"
    ELSE "string"

\* pyarrow's inferred type for a column holding values of the types ts:
\* nulls take the other type, integers and floats make a double column
MergeTypes(ts) ==
    LET real == ts \ {"null"}
    IN  IF real = {} THEN "null"
        ELSE IF Cardinality(real) = 1 THEN CHOOSE t \in real : TRUE
        ELSE IF real = {"int64", "double"} THEN "double"
        ELSE "invalid"

\* the struct type pa.array infers for a sequence of flat dicts
InferStruct(dicts) ==
    LET keys == UNION {DOMAIN d : d \in Range(dicts)}
    IN  [k \in keys |->
            MergeTypes({LeafType(d[k]) : d \in {e \in Range(dicts) : k \in DOMAIN e}})]

\* the value a Python scalar has in a column of type t
CastLeaf(v, t) == IF t = "double" THEN IntToFloat(v) ELSE v

\* a flat dict as a cell of struct type `fields`: a missing key is null, a
\* key the type does not have is left out
FillStruct(d, fields) ==
    [k \in DOMAIN fields |-> IF k \in DOMAIN d THEN CastLeaf(d[k], fields[k]) ELSE NULL]

\* whether pyarrow converts Python scalar v to leaf type t
Converts(v, t) ==
    \/ v = NULL
    \/ t = "int64" /\ v \in IntLits
    \/ t = "double" /\ v \in IntLits \cup FloatLits
    \/ t = "binary" /\ v \in WkbVals
    \/ t = "string" /\ v \notin IntLits \cup FloatLits \cup WkbVals

StructConverts(d, fields) ==
    \A k \in DOMAIN fields \cap DOMAIN d : Converts(d[k], fields[k])

\* ---- StacJsonBatch.from_dicts
\* the deep copy of an item with its geometries replaced by WKB
WkbItem(item) ==
    [item EXCEPT
        !.geometry = to_wkb(item.geometry),
        !.properties =
            IF "proj_geometry" \in DOMAIN item.properties
            THEN [item.properties EXCEPT !.proj_geometry = to_wkb(@)]
            ELSE item.properties,
        !.assets =
            [k \in DOMAIN item.assets |->
                IF "proj_geometry" \in DOMAIN item.assets[k]
                THEN [item.assets[k] EXCEPT !.proj_geometry = to_wkb(@)]
                ELSE item.assets[k]]]

\* shapely.geometry.shape(None) raises
ShapeRaises(item) ==
    \/ item.geometry = NULL
    \/ "proj_geometry" \in DOMAIN item.properties
          /\ item.properties.proj_geometry = NULL
    \/ \E k \in DOMAIN item.assets :
          "proj_geometry" \in DOMAIN item.assets[k]
              /\ item.assets[k].proj_geometry = NULL

\* the sequences of the dicts found under an asset key
AssetDicts(wkb_items, k) ==
    LET with_k == {i \in DOMAIN wkb_items : k \in DOMAIN wkb_items[i].assets}
    IN  [i \in with_k |-> wkb_items[i].assets[k]]

\* pa.array(wkb_items): the struct type inferred from the items
InferSchema(wkb_items) ==
    [id |-> "int64", geometry |-> "binary", bbox |-> "list",
     properties |-> InferStruct([i \in DOMAIN wkb_items |-> wkb_items[i].properties]),
     assets |->
        [k \in UNION {DOMAIN it.assets : it \in Range(wkb_items)} |->
            InferStruct(AssetDicts(wkb_items, k))]]

\* one item as a row of struct type `schema`
RowOf(it, schema) ==
    [id |-> it.id, geometry |-> it.geometry, bbox |-> it.bbox,
     properties |-> FillStruct(it.properties, schema.properties),
     assets |->
        [k \in DOMAIN schema.assets |->
            IF k \in DOMAIN it.assets
            THEN FillStruct(it.assets[k], schema.assets[k])
            ELSE NullStruct]]

RowConverts(it, schema) ==
    /\ StructConverts(it.properties, schema.properties)
    /\ \A k \in DOMAIN schema.assets \cap DOMAIN it.assets :
          StructConverts(it.assets[k], schema.assets[k])

NoSchema == [none |-> TRUE]

\* pa.array(wkb_items, type=pa.struct(schema)) as a batch
StructArray(wkb_items, schema) ==
    IF \E i \in DOMAIN wkb_items : ~RowConverts(wkb_items[i], schema)
    THEN Raised("ArrowInvalid")
    ELSE Batch(schema, [i \in DOMAIN wkb_items |-> RowOf(wkb_items[i], schema)])

\* StacJsonBatch.from_dicts(items, schema=schema); without a schema
\* pa.array([]) is a null array, which from_struct_array does not take
from_dicts(items, schema) ==
    IF \E i \in DOMAIN items : ShapeRaises(items[i])
    THEN Raised("AttributeError")
    ELSE IF items = <<>> /\ schema = NoSchema
    THEN Raised("TypeError")
    ELSE IF schema = NoSchema
    THEN StructArray([i \in DOMAIN items |-> WkbItem(items[i])],
                     InferSchema([i \in DOMAIN items |-> WkbItem(items[i])]))
    ELSE StructArray([i \in DOMAIN items |-> WkbItem(items[i])], schema)

\* ---- StacJsonBatch.to_arrow_batch
\* A batch may hold two columns of one name, a record one field per name: the
\* second column of a name is kept under the key Second(name), and
\* ColumnName gives the name of the column kept under a key.
Second(k) ==
    CASE k = "id" -> "id/2" [] k = "geometry" -> "geometry/2"
      [] k = "bbox" -> "bbox/2" [] k = "assets" -> "assets/2"

ColumnName(c) ==
    CASE c = "id/2" -> "id" [] c = "geometry/2" -> "geometry"
      [] c = "bbox/2" -> "bbox" [] c = "assets/2" -> "assets"
      [] OTHER -> c

\* every field of the properties struct is appended as a column after the
\* others, whatever its name, and the properties column is dropped
bring_properties_to_top_level(b) ==
    LET props == b.schema.properties
        top == DOMAIN b.schema \ {"properties"}
        cols == top \cup {IF k \in top THEN Second(k) ELSE k : k \in DOMAIN props}
    IN  Batch([c \in cols |-> IF c \in top THEN b.schema[c] ELSE props[ColumnName(c)]],
              [i \in DOMAIN b.rows |->
                  [c \in cols |->
                      IF c \in top THEN b.rows[i][c]
                      ELSE b.rows[i].properties[ColumnName(c)]]])

IsTimestamp(t) == t \in {"timestamp[us]", "timestamp[us, tz=UTC]"}

\* a string column is parsed cell by cell, and str() of a null cell does not
\* parse; a null column is cast to timestamp[us]
convert_timestamp_columns(b) ==
    LET cols == TimestampColumns \cap DOMAIN b.schema
    IN  IF \E c \in cols : ~IsTimestamp(b.schema[c]) /\ b.schema[c] \notin {"null", "string"}
        THEN Raised("ValueError")
        ELSE IF \E c \in cols : b.schema[c] = "string"
                    /\ \E i \in DOMAIN b.rows : b.rows[i][c] = NULL
        THEN Raised("ValueError")
        ELSE Batch([k \in DOMAIN b.schema |->
                       IF k \in cols
                       THEN IF b.schema[k] = "string" THEN "timestamp[us, tz=UTC]"
                            ELSE IF b.schema[k] = "null" THEN "timestamp[us]"
                            ELSE b.schema[k]
                       ELSE b.schema[k]],
                   [i \in DOMAIN b.rows |->
                       [k \in DOMAIN b.schema |->
                           IF k \in cols /\ b.schema[k] = "string"
                           THEN parse_rfc3339(b.rows[i][k])
                           ELSE b.rows[i][k]]])

Bbox2D == "struct<xmin, ymin, xmax, ymax>"
Bbox3D == "struct<xmin, ymin, zmin, xmax, ymax, zmax>"

\* np.nextafter(x.astype(np.float32), -inf): the float32 just below x
Float32Below(x) ==
    CASE x = "0" -> "0-" [] x = "1" -> "1-" [] x = "2" -> "2-"
      [] x = "3" -> "3-" [] x = "4" -> "4-" [] x = "5" -> "5-"

\* np.nextafter(x.astype(np.float32), +inf): the float32 just above x
Float32Above(x) ==
    CASE x = "0" -> "0+" [] x = "1" -> "1+" [] x = "2" -> "2+"
      [] x = "3" -> "3+" [] x = "4" -> "4+" [] x = "5" -> "5+"

Lo(x, downcast) == IF downcast THEN Float32Below(x) ELSE x

Hi(x, downcast) == IF downcast THEN Float32Above(x) ELSE x

\* the struct with the maxima in the places of the minima
BboxStruct_max_first(x, downcast) ==
    IF Len(x) = 4
    THEN [xmin |-> Lo(x[3], downcast), ymin |-> Lo(x[4], downcast),
          xmax |-> Hi(x[1], downcast), ymax |-> Hi(x[2], downcast)]
    ELSE [xmin |-> Lo(x[4], downcast), ymin |-> Lo(x[5], downcast),
          zmin |-> Lo(x[6], downcast), xmax |-> Hi(x[1], downcast),
          ymax |-> Hi(x[2], downcast), zmax |-> Hi(x[3], downcast)]

BboxStruct(x, downcast) ==
    IF Len(x) = 4
    THEN [xmin |-> Lo(x[1], downcast), ymin |-> Lo(x[2], downcast),
          xmax |-> Hi(x[3], downcast), ymax |-> Hi(x[4], downcast)]
    ELSE [xmin |-> Lo(x[1], downcast), ymin |-> Lo(x[2], downcast),
          zmin |-> Lo(x[3], downcast), xmax |-> Hi(x[4], downcast),
          ymax |-> Hi(x[5], downcast), zmax |-> Hi(x[6], downcast)]

\* all the rows of a batch must have the same number of coordinates, 4 or 6;
\* with downcast the coordinates become float32, the minima rounded down and
\* the maxima up
convert_bbox_to_struct(b, downcast) ==
    LET lens == {Len(b.rows[i].bbox) : i \in DOMAIN b.rows}
    IN  IF Cardinality(lens) > 1 \/ lens \cap {4, 6} = {}
        THEN Raised("ValueError")
        ELSE Batch([b.schema EXCEPT !.bbox = IF lens = {4} THEN Bbox2D ELSE Bbox3D],
                   [i \in DOMAIN b.rows |->
                       [b.rows[i] EXCEPT !.bbox = BboxStruct(@, downcast)]])

WithBboxStruct(timed, downcast) ==
    IF timed.err # "" THEN timed ELSE convert_bbox_to_struct(timed, downcast)

\* _process_arrow_batch(batch, downcast=downcast)
process_arrow_batch(b, downcast) ==
    WithBboxStruct(convert_timestamp_columns(bring_properties_to_top_level(b)), downcast)

\* StacJsonBatch.to_arrow_batch: the same steps, by the converters it imports
\* from _to_arrow; its bbox converter takes the batch alone and keeps the
\* coordinates as they are
to_arrow_batch(b) == process_arrow_batch(b, FALSE)

\* stac_items_to_arrow(items, schema=schema)
Processed(raw) == IF raw.err # "" THEN raw ELSE to_arrow_batch(raw)

stac_items_to_arrow(items, schema) == Processed(from_dicts(items, schema))

\* ---- StacArrowBatch.to_json_batch
convert_timestamp_columns_to_string(b) ==
    LET cols == TimestampColumns \cap DOMAIN b.schema
    IN  Batch([k \in DOMAIN b.schema |-> IF k \in cols THEN "string" ELSE b.schema[k]],
              [i \in DOMAIN b.rows |->
                  [k \in DOMAIN b.schema |->
                      IF k \in cols THEN strftime(b.rows[i][k]) ELSE b.rows[i][k]]])

STAC_TOP_LEVEL_KEYS ==
    {"stac_version", "stac_extensions", "type", "id", "bbox", "geometry",
     "collection", "links", "assets"}

lower_properties_from_top_level(b) ==
    LET props == {c \in DOMAIN b.schema : ColumnName(c) \notin STAC_TOP_LEVEL_KEYS}
        top == DOMAIN b.schema \ props
    IN  Batch([k \in top \cup {"properties"} |->
                  IF k = "properties" THEN [c \in props |-> b.schema[c]]
                  ELSE b.schema[k]],
              [i \in DOMAIN b.rows |->
                  [k \in top \cup {"properties"} |->
                      IF k = "properties" THEN [c \in props |-> b.rows[i][c]]
                      ELSE b.rows[i][k]]])

BboxList(c) ==
    IF "zmin" \in DOMAIN c
    THEN <<c.xmin, c.ymin, c.zmin, c.xmax, c.ymax, c.zmax>>
    ELSE <<c.xmin, c.ymin, c.xmax, c.ymax>>

\* to_numpy() of a coordinate column that holds a null raises
convert_bbox_to_array(b) ==
    IF \E i \in DOMAIN b.rows : NULL \in Range(b.rows[i].bbox)
    THEN Raised("ArrowInvalid")
    ELSE Batch([b.schema EXCEPT !.bbox = "list"],
               [i \in DOMAIN b.rows |-> [b.rows[i] EXCEPT !.bbox = BboxList(@)]])

to_json_batch(b) ==
    convert_bbox_to_array(
        lower_properties_from_top_level(convert_timestamp_columns_to_string(b)))

\* ---- StacJsonBatch.iter_dicts
\* the asset keys whose struct has a proj:geometry field
GeometryAssets(schema) ==
    {k \in DOMAIN schema.assets : "proj_geometry" \in DOMAIN schema.assets[k]}

\* a null cell in a WKB column reads as None, which has no __geo_interface__
RowRaises(row, schema) ==
    \/ row.geometry = NULL
    \/ "proj_geometry" \in DOMAIN schema.properties
          /\ row.properties.proj_geometry = NULL
    \/ \E k \in GeometryAssets(schema) :
          IsNullStruct(row.assets[k]) \/ row.assets[k].proj_geometry = NULL

\* the row as a dict, its WKB cells replaced by GeoJSON
RowDict(row, schema) ==
    [row EXCEPT
        !.geometry = from_wkb(@),
        !.properties =
            IF "proj_geometry" \in DOMAIN schema.properties
            THEN [@ EXCEPT !.proj_geometry = from_wkb(@)]
            ELSE @,
        !.assets =
            [k \in DOMAIN schema.assets |->
                IF k \in GeometryAssets(schema)
                THEN [row.assets[k] EXCEPT !.proj_geometry = from_wkb(@)]
                ELSE row.assets[k]]]

\* as_py() of a struct with two fields of one name raises
HasTwoOfOneName(schema) == \E c \in DOMAIN schema : ColumnName(c) # c

\* the dicts of a batch as [err, items]: the rows before the first that
\* raises are yielded
RowsUntilRaise(b) ==
    LET bad == {i \in DOMAIN b.rows : RowRaises(b.rows[i], b.schema)}
        n == IF bad = {} THEN Len(b.rows) ELSE (CHOOSE i \in bad : \A j \in bad : i <= j) - 1
    IN  [err |-> IF bad = {} THEN "" ELSE "AttributeError",
         items |-> [i \in 1..n |-> RowDict(b.rows[i], b.schema)]]

iter_dicts(b) ==
    IF HasTwoOfOneName(b.schema) /\ b.rows # <<>>
    THEN [err |-> "ValueError", items |-> <<>>]
    ELSE RowsUntilRaise(b)

\* stac_table_to_items on one batch of the table
DictsOf(j) == IF j.err # "" THEN [err |-> j.err, items |-> <<>>] ELSE iter_dicts(j)

batch_to_items(b) == DictsOf(to_json_batch(b))

\* ---- equality of JSON values (tests/json_equals.py)
IsNumber(v) == v \in IntLits \cup FloatLits

LeafEq(a, b) ==
    IF a = NULL \/ b = NULL THEN a = b
    ELSE IF IsNumber(a) \/ IsNumber(b) THEN IsNumber(a) /\ IsNumber(b) /\ NumVal(a) = NumVal(b)
    ELSE IF a \in TsStrings /\ b \in TsStrings THEN parse_rfc3339(a) = parse_rfc3339(b)
    ELSE a = b

Get(d, k) == IF k \in DOMAIN d THEN d[k] ELSE NULL

DictEq(a, b) == \A k \in DOMAIN a \cup DOMAIN b : LeafEq(Get(a, k), Get(b, k))

IsNone(assets, k) == k \notin DOMAIN assets \/ IsNullStruct(assets[k])

AssetsEq(a, b) ==
    \A k \in DOMAIN a \cup DOMAIN b :
        IF IsNone(a, k) \/ IsNone(b, k) THEN IsNone(a, k) /\ IsNone(b, k)
        ELSE DictEq(a[k], b[k])

assert_json_value_equal(a, b) ==
    /\ a.id = b.id
    /\ a.geometry = b.geometry
    /\ a.bbox = b.bbox
    /\ DictEq(a.properties, b.properties)
    /\ AssetsEq(a.assets, b.assets)

ItemsEq(xs, ys) ==
    Len(xs) = Len(ys) /\ \A i \in 1..Len(xs) : assert_json_value_equal(xs[i], ys[i])

\* ---- pa.unify_schemas(..., promote_options="permissive")
BboxUnion == "struct<xmin, ymin, xmax, ymax, zmin, zmax>"

\* two leaf types: null takes the other type, an integer widens to a double,
\* the fields of two bbox structs are united in the order they come
MergeField(a, b) ==
    IF a = b THEN a
    ELSE IF a = "null" THEN b
    ELSE IF b = "null" THEN a
    ELSE IF {a, b} = {"int64", "double"} THEN "double"
    ELSE IF a = Bbox2D /\ b \in {Bbox3D, BboxUnion} THEN BboxUnion
    ELSE IF a \in {Bbox3D, BboxUnion} /\ b \in {Bbox2D, Bbox3D, BboxUnion} THEN a
    ELSE "invalid"

MergeStruct(a, b) ==
    [k \in DOMAIN a \cup DOMAIN b |->
        IF k \notin DOMAIN b THEN a[k]
        ELSE IF k \notin DOMAIN a THEN b[k]
        ELSE MergeField(a[k], b[k])]

MergeAssets(a, b) ==
    [k \in DOMAIN a \cup DOMAIN b |->
        IF k \notin DOMAIN b THEN a[k]
        ELSE IF k \notin DOMAIN a THEN b[k]
        ELSE MergeStruct(a[k], b[k])]

\* the later schema taken in place of the unification
unify_schemas_takes_latest(a, b) == b

unify_schemas(a, b) ==
    [k \in DOMAIN a \cup DOMAIN b |->
        IF k \notin DOMAIN b THEN a[k]
        ELSE IF k \notin DOMAIN a THEN b[k]
        ELSE IF k = "assets" THEN MergeAssets(a[k], b[k])
        ELSE IF k = "properties" THEN MergeStruct(a[k], b[k])
        ELSE MergeField(a[k], b[k])]

\* whether the unification raised (a field whose types do not merge)
UnifyRaises(s) ==
    \/ \E k \in DOMAIN s \ {"assets", "properties"} : s[k] = "invalid"
    \/ \E k \in DOMAIN s.assets : "invalid" \in Range(s.assets[k])
    \/ "properties" \in DOMAIN s /\ "invalid" \in Range(s.properties)

\* ---- a Parquet file read back under the dataset's schema
BboxCoords(t) ==
    IF t = Bbox2D THEN {"xmin", "ymin", "xmax", "ymax"}
    ELSE {"xmin", "ymin", "zmin", "xmax", "ymax", "zmax"}

CastAssets(cell, type) ==
    [k \in DOMAIN type |->
        IF k \notin DOMAIN cell THEN NullStruct
        ELSE IF IsNullStruct(cell[k]) THEN NullStruct
        ELSE FillStruct(cell[k], type[k])]

\* a column the file does not have is null; a column the schema does not
\* have is not read
CastRow(row, schema) ==
    [k \in DOMAIN schema |->
        IF k = "assets" THEN CastAssets(row.assets, schema.assets)
        ELSE IF k = "bbox" THEN FillStruct(row.bbox, [c \in BboxCoords(schema.bbox) |-> "double"])
        ELSE IF k \in DOMAIN row THEN CastLeaf(row[k], schema[k])
        ELSE NULL]

CastBatch(b, schema) ==
    Batch(schema, [i \in DOMAIN b.rows |-> CastRow(b.rows[i], schema)])

\* ---- the files of a directory
\* the directory is a function from the numbers k of its files k.parquet to
\* their contents
NoFiles == <<>>

WithFile(dir, k, b) ==
    [j \in DOMAIN dir \cup {k} |-> IF j = k THEN b ELSE dir[j]]

\* the characters of "k.parquet" up to the dot, which sorts before a digit
PathOf(k) == IF k < 10 THEN <<k, -1>> ELSE <<k \div 10, k % 10, -1>>

ByPath(a, b) ==
    \E i \in 1..Min(Len(PathOf(a)), Len(PathOf(b))) :
        /\ PathOf(a)[i] < PathOf(b)[i]
        /\ \A j \in 1..(i - 1) : PathOf(a)[j] = PathOf(b)[j]

RECURSIVE SortedByPath(_)
SortedByPath(S) ==
    IF S = {} THEN <<>>
    ELSE LET m == CHOOSE x \in S : \A y \in S \ {x} : ByPath(x, y)
         IN  <<m>> \o SortedByPath(S \ {m})

\* dataset discovery sorts the files of the directory by path
DiscoverFiles(dir) == SortedByPath(DOMAIN dir)

\* ------------------------------------------------------------ the pipeline
\* What a call leaves behind: the exception it raised, or the reader it
\* returned (its declared schema, the batches it holds, the items its
\* generator has still to encode and the schema it encodes them under), and
\* the temporary directory.
Reader(declared, held, rest, given, dir, cnt) ==
    [err |-> "", declared |-> declared, held |-> held, rest |-> rest,
     given |-> given, dir |-> dir, cnt |-> cnt]

Failure(e, dir, cnt) ==
    [err |-> e, declared |-> NoSchema, held |-> <<>>, rest |-> <<>>,
     given |-> NoSchema, dir |-> dir, cnt |-> cnt]

\* the loop of the ChunksToDisk branch from chunk number cnt on:
\* [err, schema, dir, cnt]
RECURSIVE SpillChunks(_, _, _, _, _)
RECURSIVE SpillChunk(_, _, _, _, _, _)
SpillChunk(rest, chunk_size, unified, dir, cnt, batch) ==
    IF UnifyRaises(unified)
    THEN [err |-> "ArrowTypeError", schema |-> unified, dir |-> dir, cnt |-> cnt]
    ELSE SpillChunks(rest, chunk_size, unified, WithFile(dir, cnt, batch), cnt + 1)

\* the schema after a chunk: the first chunk's, or the unification
Unified(schema, batch) ==
    IF batch.err # "" THEN schema
    ELSE IF schema = NoSchema \/ schema = batch.schema THEN batch.schema
    ELSE unify_schemas(schema, batch.schema)

RECURSIVE Encoded(_, _, _, _, _, _)
Encoded(rest, chunk_size, schema, dir, cnt, batch) ==
    IF batch.err # ""
    THEN [err |-> batch.err, schema |-> schema, dir |-> dir, cnt |-> cnt]
    ELSE SpillChunk(rest, chunk_size, Unified(schema, batch), dir, cnt, batch)

SpillChunks(rest, chunk_size, schema, dir, cnt) ==
    IF rest = <<>>
    THEN [err |-> "", schema |-> schema, dir |-> dir, cnt |-> cnt]
    ELSE Encoded(Advance(rest, islice(rest, chunk_size)), chunk_size, schema, dir, cnt,
                 stac_items_to_arrow(islice(rest, chunk_size), NoSchema))

\* ds.to_batches(): the files of the directory in discovery order, each read
\* under the dataset's schema (a file holds one chunk, so one batch)
DatasetBatches(dir, schema) ==
    LET files == DiscoverFiles(dir)
    IN  [i \in 1..Len(files) |-> CastBatch(dir[files[i]], schema)]

\* a reader that holds a first batch, unless encoding it raised
ReaderOf(batch, rest, given, dir) ==
    IF batch.err # "" THEN Failure(batch.err, dir, 0)
    ELSE Reader(batch.schema, <<batch>>, rest, given, dir, 0)

\* without a chunk `schema` is still the string "ChunksToDisk", which
\* pa.dataset.dataset does not take for a schema
DatasetReader(spilled) ==
    IF spilled.err # "" THEN Failure(spilled.err, spilled.dir, spilled.cnt)
    ELSE IF spilled.schema = NoSchema THEN Failure("TypeError", spilled.dir, spilled.cnt)
    ELSE Reader(spilled.schema, DatasetBatches(spilled.dir, spilled.schema),
                <<>>, NoSchema, spilled.dir, spilled.cnt)

\* every strategy taken as FirstBatch: the first chunk encoded, the rest left
\* to the stream
parse_stac_items_to_arrow_by_chunks(items, chunk_size, strategy, given, tmpdir, dir) ==
    ReaderOf(stac_items_to_arrow(islice(items, chunk_size), NoSchema),
             Advance(items, islice(items, chunk_size)), NoSchema, dir)

\* every strategy taken as FullFile: the whole input encoded as one batch
\* before the reader is returned
\* from_batches over the lazily encoded chunks: `init = next(batches)` takes
\* the first chunk, and raises StopIteration when there is none
from_batches(items, chunk_size, dir) ==
    IF items = <<>> THEN Failure("StopIteration", dir, 0)
    ELSE ReaderOf(stac_items_to_arrow(islice(items, chunk_size), NoSchema),
                  Advance(items, islice(items, chunk_size)), NoSchema, dir)

parse_stac_items_to_arrow_whole_input(items, chunk_size, strategy, given, tmpdir, dir) ==
    ReaderOf(stac_items_to_arrow(items, IF strategy = "Provided" THEN given ELSE NoSchema),
             <<>>, NoSchema, dir)

parse_stac_items_to_arrow(items, chunk_size, strategy, given, tmpdir, dir) ==
    IF strategy = "Provided"
    THEN Reader(given, <<>>, items, given, dir, 0)
    ELSE IF strategy = "FullFile"
    THEN ReaderOf(stac_items_to_arrow(items, NoSchema), <<>>, NoSchema, dir)
    ELSE IF strategy = "FirstBatch"
    THEN from_batches(items, chunk_size, dir)
    ELSE IF tmpdir = "none"
    THEN Failure("FileNotFoundError", dir, 0)
    ELSE DatasetReader(SpillChunks(items, chunk_size, NoSchema, dir, 0))

\* batched_iter(lst, n, limit=limit): `if limit:` cuts the iterator short
LimitedItems(items, limit) == IF limit > 0 THEN islice(items, limit) ELSE items

\* InferredSchema.update_from_json: the schema of each chunk of the limited
\* input, encoded without a schema, unified into the running one
RECURSIVE update_from_json(_, _, _)
RECURSIVE update_from_items(_, _, _, _)
update_from_items(rest, chunk_size, schema, batch) ==
    IF batch.err # "" THEN [err |-> batch.err, schema |-> schema]
    ELSE IF UnifyRaises(Unified(schema, batch))
    THEN [err |-> "ArrowTypeError", schema |-> schema]
    ELSE update_from_json(rest, chunk_size, Unified(schema, batch))

update_from_json(rest, chunk_size, schema) ==
    IF rest = <<>> THEN [err |-> "", schema |-> schema]
    ELSE update_from_items(Advance(rest, islice(rest, chunk_size)), chunk_size, schema,
                           from_dicts(islice(rest, chunk_size), NoSchema))

\* InferredSchema.manual_updates: inside properties a null-typed datetime
\* becomes a timestamp, proj:epsg an integer, proj:wkt2 a string
manual_updates(schema) ==
    [schema EXCEPT !.properties =
        [k \in DOMAIN @ |->
            IF @[k] # "null" THEN @[k]
            ELSE IF k = "datetime" THEN "timestamp[us, tz=UTC]"
            ELSE IF k = "proj_epsg" THEN "int64"
            ELSE IF k = "proj_wkt2" THEN "string"
            ELSE @[k]]]

\* parse_stac_ndjson_to_arrow with a schema: every chunk of the input is
\* encoded, the first of them before the reader is returned
\* (`first_batch = next(batches_iter)`, StopIteration when there is none)
ndjson_with_schema(items, chunk_size, schema) ==
    IF items = <<>> THEN Failure("StopIteration", NoFiles, 0)
    ELSE ReaderOf(stac_items_to_arrow(islice(items, chunk_size), schema),
                  Advance(items, islice(items, chunk_size)), schema, NoFiles)

WithInferred(items, chunk_size, inferred) ==
    IF inferred.err # "" THEN Failure(inferred.err, NoFiles, 0)
    ELSE ndjson_with_schema(items, chunk_size, manual_updates(inferred.schema))

parse_stac_ndjson_to_arrow(items, chunk_size, given, limit) ==
    IF given = NoSchema
    THEN WithInferred(items, chunk_size,
                      update_from_json(LimitedItems(items, limit), chunk_size, NoSchema))
    ELSE ndjson_with_schema(items, chunk_size, given)

\* check_batches inside from_batches: "" or the exception for batch b
check_batches_accepts_any(s, b) == ""

check_batches(s, b) == IF s # b.schema THEN "ValueError: Batch Schemas Not Equal" ELSE ""

\* stac_table_to_items: the stream is taken in under its declared schema and
\* decoded batch by batch; [err, items]
\* [err, items] of a stream continued by what the rest of it gave
Continued(here, later) ==
    IF here.err # "" THEN here
    ELSE [err |-> later.err, items |-> here.items \o later.items]

RECURSIVE stac_table_to_items(_, _)
stac_table_to_items(batches, declared) ==
    IF batches = <<>> THEN [err |-> "", items |-> <<>>]
    ELSE IF Head(batches).schema # declared THEN [err |-> "ArrowInvalid", items |-> <<>>]
    ELSE Continued(batch_to_items(Head(batches)),
                   stac_table_to_items(Tail(batches), declared))

\* ---- bounds of the pipeline's inputs
MaxItems == 3         \* longest input of mixed item kinds
MaxLong == 11         \* length of the long input of like items
MaxChunk == 2         \* largest chunk_size
MaxLimit == 2         \* largest limit
MaxRuns == 2          \* invocations on one caller-supplied directory

WithIds(kinds, base) == [i \in DOMAIN kinds |-> MkItem(base + i, kinds[i])]

Inputs ==
    {WithIds(ks, 0) : ks \in UNION {[1..n -> Kinds] : n \in 1..MaxItems}}
        \cup {WithIds([i \in 1..MaxLong |-> KindPlain], 0)}

\* what a later invocation on the same directory is given
LaterInputs == {WithIds(<<k>>, 100) : k \in {KindPlain, KindGsdInt}}

\* the schemas a caller provides: the JSON-layout schema of some items
SchemaOf(kinds) == InferSchema([i \in DOMAIN kinds |-> WkbItem(MkItem(i, kinds[i]))])

ProvidedSchemas == {SchemaOf(<<KindPlain>>), SchemaOf(<<KindGsdInt, KindGsdFloat>>)}

Args(entry, strategy, chunk_size, limit, tmpdir) ==
    [entry |-> entry, strategy |-> strategy, chunk_size |-> chunk_size,
     limit |-> limit, tmpdir |-> tmpdir]

\* <<the call, the schema argument>>
Calls ==
    {<<Args(e, "Provided", c, 0, "none"), g>> :
        e \in {"parse_stac_items_to_arrow", "parse_stac_items_to_parquet"},
        c \in 1..MaxChunk, g \in ProvidedSchemas}
    \cup {<<Args(e, s, c, 0, "none"), NoSchema>> :
        e \in {"parse_stac_items_to_arrow", "parse_stac_items_to_parquet"},
        s \in {"FullFile", "FirstBatch", "ChunksToDisk"}, c \in 1..MaxChunk}
    \cup {<<Args(e, "ChunksToDisk", c, 0, "caller"), NoSchema>> :
        e \in {"parse_stac_items_to_arrow", "parse_stac_items_to_parquet"},
        c \in 1..MaxChunk}
    \cup {<<Args("parse_stac_ndjson_to_arrow", "Provided", c, l, "none"), g>> :
        c \in 1..MaxChunk, l \in 0..MaxLimit, g \in ProvidedSchemas}
    \cup {<<Args("parse_stac_ndjson_to_arrow", "Inferred", c, l, "none"), NoSchema>> :
        c \in 1..MaxChunk, l \in 0..MaxLimit}

NotDecoded == [err |-> "pending", items |-> <<>>]

\* the state an invocation starts from
Invoke(call, items) ==
    /\ p_args = call[1]
    /\ p_given = call[2]
    /\ p_items = items
    /\ p_pc = "call"
    /\ p_declared = NoSchema
    /\ p_held = <<>>
    /\ p_rest = <<>>
    /\ p_out = <<>>
    /\ p_err = ""
    /\ p_tmp = call[1].tmpdir
    /\ p_dir = NoFiles
    /\ p_cnt = 0
    /\ p_run = 1
    /\ p_decoded = NotDecoded
    /\ p_taken = 0

PipeInit ==
    /\ BatchIdle
    /\ ReadIdle
    /\ ExtIdle
    /\ \E call \in Calls, items \in Inputs : Invoke(call, items)

InParquet == p_args.entry = "parse_stac_items_to_parquet"

\* The items batched_iter took from the input while the call ran and raised:
\* a chunk is taken whole before it is encoded. FullFile hands the whole
\* input to the encoder; the NDJSON entry counts the pass that encodes, which
\* schema inference comes before.
TakenByFailedCall(r) ==
    LET first == Len(islice(p_items, p_args.chunk_size))
    IN  CASE p_args.strategy = "FirstBatch" -> first
          [] p_args.strategy = "FullFile" -> Len(p_items)
          [] p_args.strategy = "ChunksToDisk" ->
                IF r.err = "FileNotFoundError" THEN 0
                ELSE Min(Len(p_items), (r.cnt + 1) * p_args.chunk_size)
          [] p_args.strategy = "Inferred" ->
                IF update_from_json(LimitedItems(p_items, p_args.limit),
                                    p_args.chunk_size, NoSchema).err # ""
                THEN 0 ELSE first
          [] OTHER -> IF p_args.entry = "parse_stac_ndjson_to_arrow" THEN first ELSE 0

\* the items the input iterator has given up when the call is over
TakenByCall(r) ==
    IF r.err = "" THEN Len(p_items) - Len(r.rest) ELSE TakenByFailedCall(r)

\* the with block of the directory left before the reader is handed to
\* to_parquet
Returned_outside_with(r, tmpdir) ==
    /\ p_tmp' = IF tmpdir = "own" THEN "removed" ELSE tmpdir
    /\ p_err' = r.err
    /\ p_declared' = r.declared
    /\ p_held' = r.held
    /\ p_rest' = r.rest
    /\ p_given' = r.given
    /\ p_dir' = IF tmpdir = "own" THEN NoFiles ELSE r.dir
    /\ p_cnt' = r.cnt
    /\ p_taken' = TakenByCall(r)
    /\ p_pc' = IF r.err = "" THEN "stream"
               ELSE IF InParquet THEN "returning" ELSE "raised"

\* the call up to the point where it holds a reader (or has raised); the
\* Parquet entry makes its own directory for ChunksToDisk without a tmpdir
Returned(r, tmpdir) ==
    /\ p_tmp' = tmpdir
    /\ p_err' = r.err
    /\ p_declared' = r.declared
    /\ p_held' = r.held
    /\ p_rest' = r.rest
    /\ p_given' = r.given
    /\ p_dir' = r.dir
    /\ p_cnt' = r.cnt
    /\ p_taken' = TakenByCall(r)
    /\ p_pc' = IF r.err = "" THEN "stream"
               ELSE IF InParquet THEN "returning" ELSE "raised"

OwnTmpdir == InParquet /\ p_args.strategy = "ChunksToDisk" /\ p_tmp = "none"

Call ==
    /\ p_pc = "call"
    /\ IF p_args.entry = "parse_stac_ndjson_to_arrow"
       THEN Returned(parse_stac_ndjson_to_arrow(p_items, p_args.chunk_size, p_given,
                                                p_args.limit), p_tmp)
       ELSE Returned(parse_stac_items_to_arrow(p_items, p_args.chunk_size,
                         p_args.strategy, p_given,
                         IF OwnTmpdir THEN "own" ELSE p_tmp, p_dir),
                     IF OwnTmpdir THEN "own" ELSE p_tmp)
    /\ UNCHANGED <<p_args, p_items, p_out, p_run, p_decoded>>
    /\ UNCHANGED <<bi_vars, rj_vars, x_vars>>

\* one pull on the reader: by the consumer, or by to_parquet's loop, which
\* takes the stream in under its declared schema
Pull ==
    /\ p_pc = "stream"
    /\ LET chunk == islice(p_rest, p_args.chunk_size)
           b == IF p_held # <<>> THEN Head(p_held)
                ELSE stac_items_to_arrow(chunk, p_given)
           e == IF b.err # "" THEN b.err
                ELSE IF p_args.strategy = "FirstBatch" THEN check_batches(p_declared, b)
                ELSE IF InParquet /\ b.schema # p_declared THEN "ArrowInvalid"
                ELSE ""
       IN  IF p_held = <<>> /\ p_rest = <<>>
           THEN /\ p_pc' = IF InParquet THEN "returning" ELSE "done"
                /\ UNCHANGED <<p_held, p_rest, p_out, p_err, p_taken>>
           ELSE IF e # ""
           THEN /\ p_err' = e
                /\ p_held' = <<>>
                /\ p_rest' = <<>>
                /\ p_taken' = IF p_held # <<>> THEN p_taken ELSE p_taken + Len(chunk)
                /\ p_pc' = IF InParquet THEN "returning" ELSE "stream"
                /\ UNCHANGED p_out
           ELSE /\ p_out' = Append(p_out, b)
                /\ p_held' = IF p_held # <<>> THEN Tail(p_held) ELSE p_held
                /\ p_rest' = IF p_held # <<>> THEN p_rest ELSE Advance(p_rest, chunk)
                /\ p_taken' = IF p_held # <<>> THEN p_taken ELSE p_taken + Len(chunk)
                /\ UNCHANGED <<p_pc, p_err>>
    /\ UNCHANGED <<p_args, p_given, p_items, p_declared, p_tmp, p_dir, p_cnt, p_run,
                   p_decoded>>
    /\ UNCHANGED <<bi_vars, rj_vars, x_vars>>

\* parse_stac_items_to_parquet returns or raises; leaving the `with` block
\* removes the directory it made
Return ==
    /\ p_pc = "returning"
    /\ p_pc' = IF p_err = "" THEN "done" ELSE "raised"
    /\ p_tmp' = IF p_tmp = "own" THEN "removed" ELSE p_tmp
    /\ p_dir' = IF p_tmp = "own" THEN NoFiles ELSE p_dir
    /\ UNCHANGED <<p_args, p_given, p_items, p_declared, p_held, p_rest, p_out, p_err,
                   p_cnt, p_run, p_decoded, p_taken>>
    /\ UNCHANGED <<bi_vars, rj_vars, x_vars>>

\* stac_table_to_items over what the stream gave (for the Parquet entry:
\* over the written file)
Decode ==
    /\ p_pc = "done"
    /\ p_decoded = NotDecoded
    /\ LET d == stac_table_to_items(p_out, p_declared)
       IN  p_decoded' = IF d.err = "" /\ p_err # ""
                        THEN [err |-> p_err, items |-> d.items]
                        ELSE d
    /\ UNCHANGED <<p_args, p_given, p_items, p_pc, p_declared, p_held, p_rest, p_out,
                   p_err, p_tmp, p_dir, p_cnt, p_run, p_taken>>
    /\ UNCHANGED <<bi_vars, rj_vars, x_vars>>

\* the caller runs the pipeline again on the directory it supplied before
Rerun ==
    /\ p_pc \in {"done", "raised"}
    /\ p_args.strategy = "ChunksToDisk"
    /\ p_tmp = "caller"
    /\ p_run < MaxRuns
    /\ \E items \in LaterInputs : p_items' = items
    /\ p_pc' = "call"
    /\ p_declared' = NoSchema
    /\ p_held' = <<>>
    /\ p_rest' = <<>>
    /\ p_out' = <<>>
    /\ p_err' = ""
    /\ p_cnt' = 0
    /\ p_run' = p_run + 1
    /\ p_decoded' = NotDecoded
    /\ p_taken' = 0
    /\ UNCHANGED <<p_args, p_given, p_tmp, p_dir>>
    /\ UNCHANGED <<bi_vars, rj_vars, x_vars>>

PipeNext == Call \/ Pull \/ Return \/ Decode \/ Rerun

SpecPipe == PipeInit /\ [][PipeNext]_vars

\* every call on an input without items
EmptyInit ==
    /\ BatchIdle
    /\ ReadIdle
    /\ ExtIdle
    /\ \E call \in Calls : Invoke(call, <<>>)

SpecEmpty == EmptyInit /\ [][PipeNext]_vars

\* the FirstBatch strategy of parse_stac_items_to_arrow on its own
FirstBatchInit ==
    /\ PipeInit
    /\ p_args.entry = "parse_stac_items_to_arrow"
    /\ p_args.strategy = "FirstBatch"

FirstBatchNext == Call \/ Pull \/ Decode

SpecFirstBatch == FirstBatchInit /\ [][FirstBatchNext]_vars

\* ---- one batch through from_dicts, the normalization and back
MaxNormItems == 2     \* most items in the batch that is normalized

NormKinds ==
    {KindPlain, KindGsdInt, KindProj, Kind3D, KindNullGeom, KindPropId,
     KindNullDatetime, KindNumDatetime, KindBbox5, KindThumbProj}

NormInputs == {WithIds(ks, 0) : ks \in SeqsUpTo(NormKinds, MaxNormItems) \ {<<>>}}

Unbuilt == Raised("unbuilt")

NormInit ==
    /\ BatchIdle
    /\ ReadIdle
    /\ PipeIdle
    /\ WriteIdle
    /\ NdjsonIdle
    /\ ChunksIdle
    /\ n_items \in NormInputs
    /\ n_downcast \in BOOLEAN
    /\ n_raw = Unbuilt
    /\ n_arrow = Unbuilt
    /\ n_json = Unbuilt
    /\ n_again = Unbuilt
    /\ n_dicts = NotDecoded
    /\ n_pc = "items"

Built(b, pc) == IF b.err = "" THEN pc ELSE "raised"

FromDicts ==
    /\ n_pc = "items"
    /\ n_raw' = from_dicts(n_items, NoSchema)
    /\ n_pc' = Built(n_raw', "raw")
    /\ UNCHANGED <<n_items, n_downcast, n_arrow, n_json, n_again, n_dicts>>
    /\ UNCHANGED <<bi_vars, rj_vars, p_vars, w_vars, d_vars, f_vars>>

ProcessArrowBatch ==
    /\ n_pc = "raw"
    /\ n_arrow' = process_arrow_batch(n_raw, n_downcast)
    /\ n_pc' = Built(n_arrow', "arrow")
    /\ UNCHANGED <<n_items, n_downcast, n_raw, n_json, n_again, n_dicts>>
    /\ UNCHANGED <<bi_vars, rj_vars, p_vars, w_vars, d_vars, f_vars>>

ToJsonBatch ==
    /\ n_pc = "arrow"
    /\ n_json' = to_json_batch(n_arrow)
    /\ n_pc' = Built(n_json', "json")
    /\ UNCHANGED <<n_items, n_downcast, n_raw, n_arrow, n_again, n_dicts>>
    /\ UNCHANGED <<bi_vars, rj_vars, p_vars, w_vars, d_vars, f_vars>>

ToArrowBatch ==
    /\ n_pc = "json"
    /\ n_again = Unbuilt
    /\ n_again' = to_arrow_batch(n_json)
    /\ UNCHANGED <<n_items, n_downcast, n_raw, n_arrow, n_json, n_dicts, n_pc>>
    /\ UNCHANGED <<bi_vars, rj_vars, p_vars, w_vars, d_vars, f_vars>>

IterDicts ==
    /\ n_pc = "json"
    /\ n_dicts = NotDecoded
    /\ n_dicts' = iter_dicts(n_json)
    /\ UNCHANGED <<n_items, n_downcast, n_raw, n_arrow, n_json, n_again, n_pc>>
    /\ UNCHANGED <<bi_vars, rj_vars, p_vars, w_vars, d_vars, f_vars>>

NormNext == FromDicts \/ ProcessArrowBatch \/ ToJsonBatch \/ ToArrowBatch \/ IterDicts

SpecNorm == NormInit /\ [][NormNext]_vars

\* ---- to_parquet
MaxWriteItems == 2    \* most items in the table that is written

SUPPORTED_PARQUET_SCHEMA_VERSIONS == {"1.0.0", "1.1.0"}

STAC_GEOPARQUET_VERSION == "1.0.0"

\* the schema versions a caller asks for
Versions == {"1.0.0", "1.1.0", "1.2.0", "2.0.0", "latest"}

\* schema_version.split(".")
Split(v) ==
    CASE v = "1.0.0" -> <<"1", "0", "0">> [] v = "1.1.0" -> <<"1", "1", "0">>
      [] v = "1.2.0" -> <<"1", "2", "0">> [] v = "2.0.0" -> <<"2", "0", "0">>
      [] v = "latest" -> <<"latest">>

\* int() of a string of one digit
IntOf(d) == CASE d = "0" -> 0 [] d = "1" -> 1 [] d = "2" -> 2

\* [err, value]: indexing the minor part of a version without one raises
schema_version_has_bbox_mapping(v) ==
    IF Len(Split(v)) < 2 THEN [err |-> "IndexError", value |-> FALSE]
    ELSE [err |-> "", value |-> IntOf(Split(v)[2]) >= 1]

Covering ==
    [bbox |-> [xmin |-> <<"bbox", "xmin">>, ymin |-> <<"bbox", "ymin">>,
               xmax |-> <<"bbox", "xmax">>, ymax |-> <<"bbox", "ymax">>]]

ColumnMeta(has_covering) ==
    IF has_covering
    THEN [encoding |-> "WKB", geometry_types |-> <<>>, crs |-> "WGS84",
          edges |-> "planar", covering |-> Covering]
    ELSE [encoding |-> "WKB", geometry_types |-> <<>>, crs |-> "WGS84",
          edges |-> "planar"]

ProjColumnMeta == [encoding |-> "WKB", geometry_types |-> <<>>, crs |-> NULL]

\* the entry for proj:geometry made for any geometry under the properties or
\* the assets
GeoMeta_looks_into_assets(schema, v, has_covering) ==
    [version |-> v,
     primary_column |-> "geometry",
     columns |->
        IF "proj_geometry" \in DOMAIN schema \/ GeometryAssets(schema) # {}
        THEN [geometry |-> ColumnMeta(has_covering), proj_geometry |-> ProjColumnMeta]
        ELSE [geometry |-> ColumnMeta(has_covering)]]

\* geo_meta: the entry for proj:geometry is made when the schema has a
\* column of that name
GeoMeta(schema, v, has_covering) ==
    [version |-> v,
     primary_column |-> "geometry",
     columns |->
        IF "proj_geometry" \in DOMAIN schema
        THEN [geometry |-> ColumnMeta(has_covering), proj_geometry |-> ProjColumnMeta]
        ELSE [geometry |-> ColumnMeta(has_covering)]]

\* the arguments `collections` and `collection_metadata`: None, an empty dict
\* or a dict with content
CollectionsArgs == {NULL, "{}", "{c1: {id: c1}}"}

CollectionMetadataArgs == {NULL, "{}", "{id: c1}"}

Truthy(v) == v \notin {NULL, "{}"}

\* the deprecated argument stored under the key of the other
create_stac_geoparquet_metadata_one_key(collections, collection_metadata) ==
    [warned |-> IF collection_metadata # NULL THEN <<"FutureWarning">> ELSE <<>>,
     result |->
        [k \in {"version"}
                \cup (IF Truthy(collection_metadata) \/ Truthy(collections)
                      THEN {"collections"} ELSE {}) |->
            CASE k = "version" -> STAC_GEOPARQUET_VERSION
              [] k = "collections" ->
                    IF Truthy(collection_metadata) THEN collection_metadata
                    ELSE collections]]

\* [warned, result]: the warning is issued for any collection_metadata but
\* None, and an empty argument is left out of the result
create_stac_geoparquet_metadata(collections, collection_metadata) ==
    [warned |-> IF collection_metadata # NULL THEN <<"FutureWarning">> ELSE <<>>,
     result |->
        [k \in {"version"}
                \cup (IF Truthy(collection_metadata) THEN {"collection"} ELSE {})
                \cup (IF Truthy(collections) THEN {"collections"} ELSE {}) |->
            CASE k = "version" -> STAC_GEOPARQUET_VERSION
              [] k = "collection" -> collection_metadata
              [] k = "collections" -> collections]]

NoMetadata == [err |-> "none", warned |-> <<>>, geo |-> <<>>, stac_geoparquet |-> <<>>]

WithStacGeoparquet(geo, made) ==
    [err |-> "", warned |-> made.warned, geo |-> geo, stac_geoparquet |-> made.result]

\* [err, warned, geo, stac_geoparquet]: the two metadata values and the
\* warnings issued on the way
create_parquet_metadata(schema, schema_version, collections, collection_metadata) ==
    IF schema_version_has_bbox_mapping(schema_version).err # ""
    THEN [NoMetadata EXCEPT !.err = schema_version_has_bbox_mapping(schema_version).err]
    ELSE WithStacGeoparquet(
             GeoMeta(schema, schema_version,
                     schema_version_has_bbox_mapping(schema_version).value),
             create_stac_geoparquet_metadata(collections, collection_metadata))

WriteKinds == {KindPlain, KindGsdInt, KindProj, KindAssetProj}

WriteInputs == {WithIds(ks, 0) : ks \in SeqsUpTo(WriteKinds, MaxWriteItems) \ {<<>>}}

\* the batches of a table made of one batch: one per row
TableBatches(b) == [i \in DOMAIN b.rows |-> Batch(b.schema, <<b.rows[i]>>)]

ToParquetOf(table) ==
    /\ w_schema = table.schema
    /\ w_rest = TableBatches(table)

WriteInit ==
    /\ BatchIdle
    /\ ReadIdle
    /\ PipeIdle
    /\ NormIdle
    /\ NdjsonIdle
    /\ ChunksIdle
    /\ w_args \in [schema_version : Versions, collections : CollectionsArgs,
                   collection_metadata : CollectionMetadataArgs]
    /\ w_items \in WriteInputs
    /\ ToParquetOf(stac_items_to_arrow(w_items, NoSchema))
    /\ w_meta = NoMetadata
    /\ w_rows = <<>>
    /\ w_warned = <<>>
    /\ w_err = ""
    /\ w_pc = "call"

Opened(meta) ==
    /\ w_warned' = meta.warned
    /\ w_err' = meta.err
    /\ w_meta' = IF meta.err = "" THEN meta ELSE w_meta
    /\ w_pc' = IF meta.err = "" THEN "writing" ELSE "raised"

\* to_parquet up to the opening of the writer
ToParquet ==
    /\ w_pc = "call"
    /\ Opened(create_parquet_metadata(w_schema, w_args.schema_version,
                                      w_args.collections, w_args.collection_metadata))
    /\ UNCHANGED <<w_args, w_items, w_schema, w_rest, w_rows>>
    /\ UNCHANGED <<bi_vars, rj_vars, p_vars, n_vars, d_vars, f_vars>>

\* writer.write_batch(batch)
WriteBatch ==
    /\ w_pc = "writing"
    /\ w_rest # <<>>
    /\ w_rows' = w_rows \o Head(w_rest).rows
    /\ w_rest' = Tail(w_rest)
    /\ UNCHANGED <<w_args, w_items, w_schema, w_meta, w_warned, w_err, w_pc>>
    /\ UNCHANGED <<bi_vars, rj_vars, p_vars, n_vars, d_vars, f_vars>>

\* the reader is exhausted and the writer closed
WriteClose ==
    /\ w_pc = "writing"
    /\ w_rest = <<>>
    /\ w_pc' = "done"
    /\ UNCHANGED <<w_args, w_items, w_schema, w_rest, w_meta, w_rows, w_warned, w_err>>
    /\ UNCHANGED <<bi_vars, rj_vars, p_vars, n_vars, d_vars, f_vars>>

WriteNext == ToParquet \/ WriteBatch \/ WriteClose

SpecWrite == WriteInit /\ [][WriteNext]_vars

\* ---- stac_table_to_ndjson
MaxNdjsonItems == 2   \* most rows in a table that is written as NDJSON
MaxNdjsonCalls == 2   \* calls of stac_table_to_ndjson on one destination

NdjsonKinds == {KindPlain, KindAssetProj}

\* a table is a sequence of batches of one schema: none, one batch, or one
\* batch per row
NdjsonTables ==
    LET encoded == {stac_items_to_arrow(WithIds(ks, 0), NoSchema) :
                       ks \in SeqsUpTo(NdjsonKinds, MaxNdjsonItems) \ {<<>>}}
    IN  {<<>>} \cup {<<b>> : b \in encoded} \cup {TableBatches(b) : b \in encoded}

\* batch.add_column(0, "type", ...) for a batch without a "type" column
WithType(b) ==
    IF "type" \in DOMAIN b.schema THEN b
    ELSE Batch([type |-> "dictionary<string>"] @@ b.schema,
               [i \in DOMAIN b.rows |-> [type |-> "Feature"] @@ b.rows[i]])

\* the file opened with "wb"
to_ndjson_truncates(dest, dicts) == dicts

\* StacJsonBatch.to_ndjson: the file is opened with "ab" and gets one line
\* per dict
to_ndjson(dest, dicts) == dest \o dicts

NdjsonInit ==
    /\ BatchIdle
    /\ ReadIdle
    /\ PipeIdle
    /\ NormIdle
    /\ WriteIdle
    /\ ChunksIdle
    /\ d_dest \in {<<>>, <<[id |-> 0]>>}
    /\ d_before = d_dest
    /\ d_table = <<>>
    /\ d_rest = <<>>
    /\ d_calls = 0
    /\ d_err = ""
    /\ d_pc = "ready"

\* stac_table_to_ndjson(table, dest) up to its loop
StacTableToNdjson ==
    /\ d_pc \in {"ready", "raised"}
    /\ d_calls < MaxNdjsonCalls
    /\ \E table \in NdjsonTables :
          /\ d_table' = table
          /\ d_rest' = table
    /\ d_before' = d_dest
    /\ d_calls' = d_calls + 1
    /\ d_err' = ""
    /\ d_pc' = "loop"
    /\ UNCHANGED d_dest
    /\ UNCHANGED <<bi_vars, rj_vars, p_vars, n_vars, w_vars, f_vars>>

Appended(r) ==
    /\ d_dest' = to_ndjson(d_dest, r.items)
    /\ d_err' = r.err
    /\ d_pc' = IF r.err = "" THEN "loop" ELSE "raised"
    /\ d_rest' = IF r.err = "" THEN Tail(d_rest) ELSE <<>>

\* one turn of the loop: the batch as dicts, written to dest; the lines
\* written before a row raises stay in the file
NdjsonBatch ==
    /\ d_pc = "loop"
    /\ d_rest # <<>>
    /\ Appended(batch_to_items(WithType(Head(d_rest))))
    /\ UNCHANGED <<d_before, d_table, d_calls>>
    /\ UNCHANGED <<bi_vars, rj_vars, p_vars, n_vars, w_vars, f_vars>>

NdjsonReturn ==
    /\ d_pc = "loop"
    /\ d_rest = <<>>
    /\ d_pc' = "ready"
    /\ UNCHANGED <<d_dest, d_before, d_table, d_rest, d_calls, d_err>>
    /\ UNCHANGED <<bi_vars, rj_vars, p_vars, n_vars, w_vars, f_vars>>

NdjsonNext == StacTableToNdjson \/ NdjsonBatch \/ NdjsonReturn

SpecNdjson == NdjsonInit /\ [][NdjsonNext]_vars

\* the FullFile strategy of parse_stac_items_to_arrow on its own
FullFileInit ==
    /\ PipeInit
    /\ p_args.entry = "parse_stac_items_to_arrow"
    /\ p_args.strategy = "FullFile"

SpecFullFile == FullFileInit /\ [][FirstBatchNext]_vars

\* -------------------------------------------------------- find_json_chunks
\* The byte counts of the module are 300 MiB and 64 KiB; the model keeps
\* their roles at a scale its files can reach: a chunk is longer than a seek
\* window, and a file can hold several of either.
DEFAULT_JSON_CHUNK_SIZE == 3
DELIMITER_SEEK_SIZE == 2

MaxFileBytes == 8     \* longest file handed to find_json_chunks
MaxMisses == 6        \* most turns of the search followed once the file is at its end

\* a byte of the file: the delimiter b"\n" or any other byte
Bytes == {"x", "NL"}

JsonChunkRange(offset, length) == [offset |-> offset, length |-> length]

\* input_file.read(n) at position pos: the bytes up to the end of the file
ReadBytes(file, pos, n) == SubSeq(file, pos + 1, Min(pos + n, Len(file)))

\* bytes.find(JSON_DELIMITER): the index of the first delimiter, or -1
Find(buf) ==
    LET at == {i \in DOMAIN buf : buf[i] = "NL"}
    IN  IF at = {} THEN -1 ELSE (CHOOSE i \in at : \A j \in at : i <= j) - 1

ChunksInit ==
    /\ BatchIdle
    /\ ReadIdle
    /\ PipeIdle
    /\ NormIdle
    /\ WriteIdle
    /\ NdjsonIdle
    /\ f_file \in SeqsUpTo(Bytes, MaxFileBytes)
    /\ f_prev = 0
    /\ f_off = 0
    /\ f_pos = 0
    /\ f_ranges = <<>>
    /\ f_pc = "chunk"

\* the head of `while True`: the last range and the final assertion, or the
\* seek past the next chunk
FindChunk ==
    /\ f_pc = "chunk"
    /\ IF f_prev + DEFAULT_JSON_CHUNK_SIZE >= Len(f_file)
       THEN /\ f_ranges' = Append(f_ranges, JsonChunkRange(f_prev, Len(f_file) - f_prev))
            /\ f_pc' = IF f_prev + (Len(f_file) - f_prev) = Len(f_file)
                       THEN "done" ELSE "raised"
            /\ UNCHANGED <<f_off, f_pos>>
       ELSE /\ f_pos' = f_prev + DEFAULT_JSON_CHUNK_SIZE
            /\ f_off' = f_prev + DEFAULT_JSON_CHUNK_SIZE
            /\ f_pc' = "search"
            /\ UNCHANGED f_ranges
    /\ UNCHANGED <<f_file, f_prev>>
    /\ UNCHANGED <<bi_vars, rj_vars, p_vars, n_vars, w_vars, d_vars>>

\* the file is at its end while the search is on: read returns no bytes,
\* find returns -1, and every further turn does the same
SearchAtEnd == f_pc = "search" /\ f_pos >= Len(f_file)

\* one turn of `while delim_index == -1`: a window is read and searched,
\* byte_offset += delim_index whatever was found; a delimiter ends the loop
\* and the range is appended. Of the turns at the end of the file, which
\* only count byte_offset down without end, MaxMisses are followed.
SearchWindow ==
    /\ f_pc = "search"
    /\ SearchAtEnd => f_prev + DEFAULT_JSON_CHUNK_SIZE - f_off < MaxMisses
    /\ LET delim_search_buf == ReadBytes(f_file, f_pos, DELIMITER_SEEK_SIZE)
           delim_index == Find(delim_search_buf)
           byte_offset == f_off + delim_index
       IN  /\ f_pos' = f_pos + Len(delim_search_buf)
           /\ f_off' = byte_offset
           /\ IF delim_index = -1
              THEN UNCHANGED <<f_ranges, f_prev, f_pc>>
              ELSE /\ f_ranges' = Append(f_ranges,
                                         JsonChunkRange(f_prev, byte_offset - f_prev))
                   /\ f_prev' = byte_offset + 1
                   /\ f_pc' = "chunk"
    /\ UNCHANGED f_file
    /\ UNCHANGED <<bi_vars, rj_vars, p_vars, n_vars, w_vars, d_vars>>

ChunksNext == FindChunk \/ SearchWindow

SpecChunks == ChunksInit /\ [][ChunksNext]_vars

\* the function runs on: every step of it that can be taken is taken
SpecChunksRun == SpecChunks /\ WF_vars(ChunksNext)

BatchElems == 1..2

BatchInit ==
    /\ ReadIdle
    /\ PipeIdle
    /\ ExtIdle
    /\ bi_in \in SeqsUpTo(BatchElems, MaxBatchLen)
    /\ bi_n \in 0..MaxBatchN
    /\ bi_it = <<>>
    /\ bi_out = <<>>
    /\ bi_pc = "start"

\* first next(): the guard `if n < 1: raise ValueError`, then `it = iter(lst)`
BatchedIterStart ==
    /\ bi_pc = "start"
    /\ IF bi_n < 1
       THEN /\ bi_pc' = "raised"
            /\ UNCHANGED bi_it
       ELSE /\ bi_pc' = "loop"
            /\ bi_it' = bi_in
    /\ UNCHANGED <<bi_in, bi_n, bi_out>>
    /\ UNCHANGED rj_vars
    /\ UNCHANGED <<p_vars, x_vars>>

\* one turn of `while batch := tuple(islice(it, n)): yield batch`
BatchedIterNext ==
    /\ bi_pc = "loop"
    /\ LET batch == islice(bi_it, bi_n)
       IN  IF batch = <<>>
           THEN /\ bi_pc' = "done"
                /\ UNCHANGED <<bi_it, bi_out>>
           ELSE /\ bi_out' = Append(bi_out, batch)
                /\ bi_it' = Advance(bi_it, batch)
                /\ UNCHANGED bi_pc
    /\ UNCHANGED <<bi_in, bi_n>>
    /\ UNCHANGED rj_vars
    /\ UNCHANGED <<p_vars, x_vars>>

BatchNext == BatchedIterStart \/ BatchedIterNext

SpecBatch == BatchInit /\ [][BatchNext]_vars

\* ------------------------------------------------------------------ claims

\* the items written into the files, in path order and file order
ExpectedItems == Flatten([i \in 1..Len(rj_desc) |-> rj_desc[i].items])

\* every line holds a record: nothing follows the last record but, at most,
\* the line break that ends its line
RecordsOnly == \A i \in 1..Len(rj_desc) : rj_desc[i].trail \in {<<>>, <<"NL">>}

\* C9: for files that are NDJSON (one item per line), a JSON array or a
\* FeatureCollection (on one line or spread over several), read_json yields
\* exactly the files' items, each once and in file order, the files in the
\* order the paths are given; it raises nothing.
C9_ReadJsonYieldsItems ==
    RecordsOnly =>
        /\ rj_pc # "raised"
        /\ IsPrefix(rj_out, ExpectedItems)
        /\ (rj_pc = "done" => rj_out = ExpectedItems)

\* two paths read to the end: a FeatureCollection spread over several lines,
\* then a second file
C9_Witness ==
    /\ rj_pc = "done"
    /\ RecordsOnly
    /\ Len(rj_desc) = 2
    /\ rj_desc[1].shape = "fc" /\ rj_desc[1].layout = "spread"
    /\ rj_desc[2].shape = "ndjson"
    /\ rj_out = <<"i1", "i2", "i3">>

\* C10: an empty file yields nothing and raises nothing, and white space after
\* the last record (spaces, a final line break, blank lines) changes nothing:
\* read_json ends without an error having yielded exactly the files' items,
\* none dropped and none twice.
C10_TrailingWhitespaceTolerated ==
    /\ rj_pc # "raised"
    /\ (rj_pc = "done" => rj_out = ExpectedItems)

\* C8: for every finite input and every n >= 1, batched_iter yields contiguous
\* batches whose concatenation, in order, is the input (a prefix of it while the
\* generator is running); every batch but the last has exactly n items, the last
\* has between 1 and n, and no empty batch is ever emitted (an empty input
\* yields no batch).
C8_Batches ==
    bi_n >= 1 =>
        /\ \A k \in 1..Len(bi_out) :
              /\ Len(bi_out[k]) >= 1
              /\ Len(bi_out[k]) <= bi_n
              /\ (k < Len(bi_out) => Len(bi_out[k]) = bi_n)
        /\ Flatten(bi_out) \o bi_it = (IF bi_pc = "start" THEN <<>> ELSE bi_in)
        /\ (bi_pc = "done" =>
              /\ Flatten(bi_out) = bi_in
              /\ bi_out = batched_iter(bi_in, bi_n)
              /\ (bi_in = <<>> => bi_out = <<>>))

\* a finished run with a full batch followed by a short last batch
C8_Witness ==
    /\ bi_pc = "done"
    /\ bi_n >= 2
    /\ Len(bi_out) >= 2
    /\ Len(bi_out[Len(bi_out)]) < bi_n

\* ---------------------------------------------------- claims: the pipeline
Ids(rows) == [i \in DOMAIN rows |-> rows[i].id]

\* the ids of the rows the consumer has pulled, in stream order
OutIds == Flatten([i \in DOMAIN p_out |-> Ids(p_out[i].rows)])

\* all the items of the input have a bbox of one dimension (an input of mixed
\* dimensions is rejected)
UniformBbox == \A i, j \in DOMAIN p_items : Len(p_items[i].bbox) = Len(p_items[j].bbox)

Exhausted == p_pc = "done" /\ p_err = ""

\* C1: encoding a sequence of items and decoding the result gives back as
\* many items, the i-th equal to the i-th input item up to null = absent
\* and timestamps by value.  Stated for the encodings that infer the schema
\* from the whole input (FullFile; the NDJSON entry without schema or limit)
\* on inputs of one bbox dimension: the call does not raise, and what
\* stac_table_to_items makes of the stream is the input.
C1_RoundTrip ==
    (/\ UniformBbox
     /\ \/ p_args.strategy = "FullFile"
        \/ p_args.strategy = "Inferred" /\ p_args.limit = 0)
        => /\ p_pc # "raised"
           /\ p_decoded # NotDecoded
                 => p_decoded.err = "" /\ ItemsEq(p_decoded.items, p_items)

\* C2: the rows of the batches yielded by parse_stac_items_to_arrow, in
\* stream order, are the input items in input order: always a prefix of the
\* input, and the whole input once the stream is exhausted (first invocation
\* on a directory).
C2_OrderPreserved ==
    (p_args.entry # "parse_stac_ndjson_to_arrow" /\ p_run = 1)
        => /\ IsPrefix(OutIds, Ids(p_items))
           /\ Exhausted => OutIds = Ids(p_items)

\* C3: every batch yielded by the reader returned by
\* parse_stac_items_to_arrow or parse_stac_ndjson_to_arrow has the schema the
\* reader declares (and so that of every other batch).
C3_SingleSchema ==
    p_args.entry # "parse_stac_items_to_parquet"
        => \A i \in DOMAIN p_out : p_out[i].schema = p_declared

\* ---- FirstBatch
Chunks == batched_iter(p_items, p_args.chunk_size)

EncodedChunk(k) == stac_items_to_arrow(Chunks[k], NoSchema)

\* the chunks after the first that do not encode to the first chunk's schema
Differing ==
    {k \in 2..Len(Chunks) :
        EncodedChunk(k).err # "" \/ EncodedChunk(k).schema # EncodedChunk(1).schema}

FirstDiffering == CHOOSE k \in Differing : \A j \in Differing : k <= j

NotEqual == "ValueError: Batch Schemas Not Equal"

RECURSIVE UnifiedUpTo(_)
UnifiedUpTo(k) ==
    IF k = 1 THEN EncodedChunk(1).schema
    ELSE Unified(UnifiedUpTo(k - 1), EncodedChunk(k))

SameElements(a, b) ==
    Len(a) = Len(b) /\ \A x \in Range(a) \cup Range(b) :
        Cardinality({i \in DOMAIN a : a[i] = x}) = Cardinality({i \in DOMAIN b : b[i] = x})

\* C5: under ChunksToDisk, when the reader is returned every chunk k of this
\* invocation is in <tmpdir>/k.parquet and the declared schema is the
\* unification of the chunks' schemas; the exhausted stream has yielded
\* exactly the rows of this invocation's chunks.
C5_ChunksToDiskRows ==
    p_args.strategy = "ChunksToDisk"
        => /\ (p_pc = "stream" /\ p_err = "")
                 => /\ p_cnt = Len(Chunks)
                    /\ \A k \in 1..Len(Chunks) :
                          (k - 1) \in DOMAIN p_dir /\ p_dir[k - 1] = EncodedChunk(k)
                    /\ p_declared = UnifiedUpTo(Len(Chunks))
           /\ Exhausted => SameElements(OutIds, Ids(p_items))

\* C6: once the stream of a ChunksToDisk run is exhausted and the call has
\* returned, none of the files k.parquet the run wrote remains.
C6_SpillFilesRemoved ==
    (p_args.strategy = "ChunksToDisk" /\ Exhausted)
        => \A k \in 0..(p_cnt - 1) : k \notin DOMAIN p_dir

\* C7: with limit = L the stream of parse_stac_ndjson_to_arrow holds exactly
\* the first min(L, n) of the n input items, in input order.
C7_LimitBoundsOutput ==
    (p_args.entry = "parse_stac_ndjson_to_arrow" /\ p_args.limit > 0 /\ Exhausted)
        => OutIds = Ids(islice(p_items, p_args.limit))

\* ------------------------------------------------------ the normalization
Normalized == n_arrow.err # "unbuilt"

\* the properties of the raw batch named like one of its other columns
NamedAlike == DOMAIN n_raw.schema.properties \cap (DOMAIN n_raw.schema \ {"properties"})

\* C11: normalizing a batch in which a property is named like an existing
\* top-level column (properties.id) is rejected with an error, and no
\* normalized batch has two columns of one name.
C11_CollisionRejected ==
    Normalized =>
        /\ NamedAlike # {} => n_arrow.err # ""
        /\ n_arrow.err = "" => ~HasTwoOfOneName(n_arrow.schema)

\* the timestamp fields among the properties of the raw batch
RawTimestamps == TimestampColumns \cap DOMAIN n_raw.schema.properties

\* C12: after a normalization that succeeds, every timestamp column that is
\* present has the microsecond UTC timestamp type, a column that was all null
\* (null-typed) included; a timestamp column whose type is neither null,
\* string nor timestamp makes the normalization fail.
C12_TimestampColumnsTyped ==
    Normalized =>
        /\ n_arrow.err = "" =>
              \A c \in TimestampColumns \cap DOMAIN n_arrow.schema :
                  n_arrow.schema[c] = "timestamp[us, tz=UTC]"
        /\ (\E c \in RawTimestamps :
                ~IsTimestamp(n_raw.schema.properties[c])
                    /\ n_raw.schema.properties[c] \notin {"null", "string"})
              => n_arrow.err # ""

\* the fields of the bbox struct, in order, for a bbox of n coordinates
BboxFields(n) ==
    IF n = 4 THEN <<"xmin", "ymin", "xmax", "ymax">>
    ELSE <<"xmin", "ymin", "zmin", "xmax", "ymax", "zmax">>

\* whether field k of n is a minimum
IsMin(k, n) == k <= n \div 2

RawLens == {Len(n_raw.rows[i].bbox) : i \in DOMAIN n_raw.rows}

BboxRejected == (Cardinality(RawLens) > 1 \/ RawLens \cap {4, 6} = {}) => n_arrow.err # ""

BboxTyped ==
    n_arrow.err = "" =>
        n_arrow.schema.bbox = (IF RawLens = {4} THEN Bbox2D ELSE Bbox3D)

Written == w_pc = "done"

\* some item of the table has a proj:geometry, in its properties or an asset
HadProjGeometry ==
    \E i \in DOMAIN w_items :
        \/ "proj_geometry" \in DOMAIN w_items[i].properties
        \/ \E k \in DOMAIN w_items[i].assets :
              "proj_geometry" \in DOMAIN w_items[i].assets[k]

HadProjProperty ==
    \E i \in DOMAIN w_items : "proj_geometry" \in DOMAIN w_items[i].properties

ProjEntry == "proj_geometry" \in DOMAIN w_meta.geo.columns

ProjEntryAsStated ==
    ProjEntry =>
        /\ w_meta.geo.columns.proj_geometry.encoding = "WKB"
        /\ w_meta.geo.columns.proj_geometry.crs = NULL
        /\ "covering" \notin DOMAIN w_meta.geo.columns.proj_geometry

Called == w_pc # "call"

VersionParses == Len(Split(w_args.schema_version)) >= 2

OnlyCollections == w_args.collection_metadata = NULL /\ w_args.collections # NULL

C20_UnsupportedVersionRejected ==
    /\ Called /\ w_args.schema_version \notin SUPPORTED_PARQUET_SCHEMA_VERSIONS =>
          w_pc = "raised" /\ w_err # ""
    /\ w_meta # NoMetadata =>
          w_meta.geo.version \in SUPPORTED_PARQUET_SCHEMA_VERSIONS

\* ------------------------------------------------------ heterogeneous assets
\* the rows pulled so far that were made of items of this invocation
OwnRows ==
    {r \in UNION {Range(p_out[i].rows) : i \in DOMAIN p_out} :
        \E j \in DOMAIN p_items : p_items[j].id = r.id}

ItemOfRow(r) == CHOOSE it \in Range(p_items) : it.id = r.id

\* C15: an asset key that one row of a batch has and another lacks is null in
\* the assets struct of the row that lacks it, and stac_table_to_items omits
\* it there: no decoded item has an asset key whose value is null.
C15_AbsentAssetOmitted ==
    /\ \A r \in OwnRows :
          \A k \in DOMAIN r.assets :
              k \notin DOMAIN ItemOfRow(r).assets => IsNullStruct(r.assets[k])
    /\ \A i \in DOMAIN p_decoded.items :
          \A k \in DOMAIN p_decoded.items[i].assets :
              ~IsNullStruct(p_decoded.items[i].assets[k])

\* ------------------------------------------------------ stac_table_to_ndjson
\* the ids of the rows of the table of the call at hand, in stream order
TableIds == Flatten([i \in DOMAIN d_table |-> Ids(d_table[i].rows)])

NdjsonReturned == d_pc = "ready" /\ d_calls > 0

\* C16: stac_table_to_ndjson appends and never overwrites: what the file had
\* stays at its start, and when a call returns the file is what it was
\* before the call followed by one line per row of the table, in stream
\* order, for any number of batches and over successive calls.
C16_NdjsonAppends ==
    /\ IsPrefix(d_before, d_dest)
    /\ NdjsonReturned =>
          /\ Len(d_dest) = Len(d_before) + Len(TableIds)
          /\ \A k \in DOMAIN TableIds :
                /\ d_dest[Len(d_before) + k].id = TableIds[k]
                /\ d_dest[Len(d_before) + k].type = "Feature"

\* the second call has returned, each call on a table of two batches, the
\* file not empty before the first
C16_Witness ==
    /\ NdjsonReturned
    /\ d_calls = 2
    /\ Len(d_table) = 2
    /\ Len(d_before) = 3
    /\ Len(d_dest) = 5

\* ------------------------------------------------------------------ FullFile
\* C19: under FullFile the stream is exactly one record batch that holds
\* every input item, whatever the chunk_size, and the schema of that batch
\* is the schema of the stream.
C19_FullFileOneBatch ==
    /\ Len(p_out) <= 1
    /\ p_pc = "stream" => Len(p_held) + Len(p_out) = 1 /\ p_rest = <<>>
    /\ \A i \in DOMAIN p_out :
          /\ Ids(p_out[i].rows) = Ids(p_items)
          /\ p_out[i].schema = p_declared
    /\ Exhausted => Len(p_out) = 1

\* three items and chunk_size 1: the stream gave its one batch and ended
C19_Witness ==
    /\ Exhausted
    /\ p_args.chunk_size = 1
    /\ Len(p_items) = 3
    /\ Len(p_out) = 1
    /\ Len(p_out[1].rows) = 3

\* ------------------------------------------------- normalize and denormalize
\* C18: for a normalized batch b of at least one row,
\* StacArrowBatch(b).to_json_batch().to_arrow_batch() is b again: the same
\* columns, types and values.
C18_DenormalizeNormalize ==
    Normalized /\ n_arrow.err = "" =>
        /\ n_json.err \in {"", "unbuilt"}
        /\ n_again.err # "unbuilt" =>
              /\ n_again.err = ""
              /\ n_again.schema = n_arrow.schema
              /\ n_again.rows = n_arrow.rows

\* ------------------------------------------------------------ backpressure
Streamed ==
    /\ p_args.entry \in {"parse_stac_items_to_arrow", "parse_stac_items_to_parquet"}
    /\ p_args.strategy \in {"Provided", "FirstBatch"}

\* C21: with a caller-provided schema or the FirstBatch strategy, at every
\* point the number of items taken from the input iterator is at most
\* (the number of batches the consumer has pulled + 1) x chunk_size.
C21_PullBasedBackpressure ==
    Streamed => p_taken <= (Len(p_out) + 1) * p_args.chunk_size

\* the consumer has pulled the first batch of a FirstBatch stream, and the
\* chunks after it are still in the input
C21_Witness ==
    /\ Streamed
    /\ p_args.strategy = "FirstBatch"
    /\ Len(p_out) = 1
    /\ p_taken = p_args.chunk_size
    /\ Len(p_items) > 2 * p_args.chunk_size
    /\ Len(p_rest) = Len(p_items) - p_args.chunk_size

\* ------------------------------------------------ encoding under a schema
WithSchema ==
    /\ p_args.entry = "parse_stac_items_to_arrow"
    /\ p_args.strategy = "Provided"

\* what from_dicts made of the chunk behind the j-th batch of the stream
RawChunk(j) == from_dicts(Chunks[j], p_given)

\* a field of the schema that the item lacks is null in its row
MissingIsNull(it, row) ==
    /\ \A k \in DOMAIN p_given.properties \ DOMAIN it.properties :
          row.properties[k] = NULL
    /\ \A a \in DOMAIN p_given.assets \ DOMAIN it.assets : IsNullStruct(row.assets[a])
    /\ \A a \in DOMAIN p_given.assets \cap DOMAIN it.assets :
          \A k \in DOMAIN p_given.assets[a] \ DOMAIN it.assets[a] :
              row.assets[a][k] = NULL

\* the item carries no field that the schema does not describe
Described(it) ==
    /\ DOMAIN it.properties \subseteq DOMAIN p_given.properties
    /\ DOMAIN it.assets \subseteq DOMAIN p_given.assets
    /\ \A a \in DOMAIN it.assets \cap DOMAIN p_given.assets :
          DOMAIN it.assets[a] \subseteq DOMAIN p_given.assets[a]

C22_MissingFieldsBecomeNull ==
    WithSchema =>
        \A j \in 1..Len(p_out) :
            /\ RawChunk(j).err = ""
            /\ \A i \in DOMAIN Chunks[j] :
                  MissingIsNull(Chunks[j][i], RawChunk(j).rows[i])

\* C22: when a schema is supplied to from_dicts, a field of the schema that
\* an item lacks becomes null in that row, and an item that carries a field
\* the schema does not describe is rejected with an error: no batch is made
\* of it.
C22_SchemaConformance ==
    /\ C22_MissingFieldsBecomeNull
    /\ WithSchema =>
          \A j \in 1..Len(p_out) : \A i \in DOMAIN Chunks[j] : Described(Chunks[j][i])

\* ------------------------------------------- the running schema of the spill
Spilled ==
    /\ p_args.strategy = "ChunksToDisk"
    /\ p_tmp # "none"
    /\ p_pc # "call"

\* the spill loop after chunk k (counted from 1): [err, schema, dir, cnt]
RunningAfter(k) ==
    SpillChunks(islice(p_items, k * p_args.chunk_size), p_args.chunk_size,
                NoSchema, NoFiles, 0)

\* type b is type a or a promotion of it
Widens(a, b) ==
    \/ a = b
    \/ a = "null"
    \/ a = "int64" /\ b = "double"
    \/ a = Bbox2D /\ b \in {Bbox3D, BboxUnion}
    \/ a = Bbox3D /\ b = BboxUnion

StructWidens(a, b) ==
    /\ DOMAIN a \subseteq DOMAIN b
    /\ \A k \in DOMAIN a : Widens(a[k], b[k])

\* schema t has every field of schema s, none of a narrower type
SchemaWidens(s, t) ==
    /\ DOMAIN s \subseteq DOMAIN t
    /\ \A c \in DOMAIN s \ {"assets"} : Widens(s[c], t[c])
    /\ DOMAIN s.assets \subseteq DOMAIN t.assets
    /\ \A a \in DOMAIN s.assets : StructWidens(s.assets[a], t.assets[a])

\* C23: the running schema of ChunksToDisk is append-only: after chunk k it
\* has every field of the schemas of the chunks up to k, and no field has a
\* narrower type than it had after the chunk before.
C23_RunningSchemaAppendOnly ==
    Spilled =>
        \A k \in 1..Len(Chunks) :
            RunningAfter(k).err = "" =>
                /\ \A j \in 1..k :
                      SchemaWidens(EncodedChunk(j).schema, RunningAfter(k).schema)
                /\ k > 1 =>
                      SchemaWidens(RunningAfter(k - 1).schema, RunningAfter(k).schema)

\* the second chunk added to the running schema, which is neither chunk's own
C23_Witness ==
    /\ Spilled
    /\ p_err = ""
    /\ Len(Chunks) >= 2
    /\ RunningAfter(2).err = ""
    /\ RunningAfter(2).schema # RunningAfter(1).schema
    /\ RunningAfter(2).schema # EncodedChunk(2).schema

\* ------------------------------------------------- the files read_json opens
\* C24: read_json has at most one input file open at any time, and once the
\* generator has finished, has raised, or has been closed by a consumer that
\* stopped early, no input file is open.
C24_FilesClosed ==
    /\ Cardinality(rj_open) <= 1
    /\ rj_pc \in {"done", "raised", "closed"} => rj_open = {}

\* a line of the file did not parse after others had given their items, nor
\* did the file as a whole: the exception left the generator
C24_Witness ==
    /\ rj_pc = "raised"
    /\ rj_err = "JSONDecodeError"
    /\ rj_out # <<>>
    /\ rj_open = {}

\* --------------------------------------- timestamp columns with null cells
\* the string-typed timestamp columns of the raw batch that hold a null cell
\* and a cell that is not null
MixedTimestamps ==
    {c \in RawTimestamps :
        /\ n_raw.schema.properties[c] = "string"
        /\ \E i \in DOMAIN n_raw.rows : n_raw.rows[i].properties[c] = NULL
        /\ \E i \in DOMAIN n_raw.rows : n_raw.rows[i].properties[c] # NULL}

\* nothing but the timestamp cells could make the normalization fail
OtherwiseValid ==
    /\ RawLens \in {{4}, {6}}
    /\ \A c \in RawTimestamps : n_raw.schema.properties[c] \in {"null", "string"}

\* C25: in a string-typed timestamp column that mixes null cells and cells
\* that are not null, normalization parses each cell that is not null and
\* keeps each null cell as a null timestamp in the same row; it does not fail.
C25_NullCellsKept ==
    Normalized /\ OtherwiseValid /\ MixedTimestamps # {} =>
        /\ n_arrow.err = ""
        /\ \A c \in MixedTimestamps : \A i \in DOMAIN n_raw.rows :
              n_arrow.rows[i][c] =
                  IF n_raw.rows[i].properties[c] = NULL THEN NULL
                  ELSE parse_rfc3339(n_raw.rows[i].properties[c])

\* ----------------------------------------------------------- empty inputs
\* a call that is given a directory when it needs one, on no items
EmptyCall ==
    /\ p_items = <<>>
    /\ p_args.entry \in {"parse_stac_items_to_arrow", "parse_stac_ndjson_to_arrow"}
    /\ p_args.strategy = "ChunksToDisk" => p_args.tmpdir = "caller"
    /\ p_pc # "call"

\* C26: for an empty item sequence (or input files without items),
\* parse_stac_items_to_arrow under each strategy and
\* parse_stac_ndjson_to_arrow return a stream that yields no rows; they do
\* not raise.
C26_EmptyInputEmptyStream ==
    EmptyCall =>
        /\ p_err = ""
        /\ p_pc # "raised"
        /\ \A i \in DOMAIN p_out : p_out[i].rows = <<>>

\* with a schema the call on no items returns a stream without rows
C26_ProvidedEmptyStream ==
    EmptyCall /\ p_args.entry = "parse_stac_items_to_arrow"
              /\ p_args.strategy = "Provided"
        => p_err = "" /\ p_out = <<>> /\ p_pc \in {"stream", "done"}

\* ------------------------------------------------- rows with null slots
Materialized == n_dicts # NotDecoded /\ ~HasTwoOfOneName(n_json.schema)

\* C27: iter_dicts yields one item for every row of the batch without
\* error, also for a row whose geometry cell is null and for a row in which
\* an asset that carries proj:geometry in other rows is null; the null slot
\* is kept as null (or omitted) and no geometry is put into it.
C27_NullSlotsMaterialized ==
    Materialized =>
        /\ n_dicts.err = ""
        /\ Len(n_dicts.items) = Len(n_json.rows)
        /\ \A i \in DOMAIN n_dicts.items :
              /\ n_json.rows[i].geometry = NULL => n_dicts.items[i].geometry = NULL
              /\ \A k \in DOMAIN n_json.schema.assets :
                    IsNullStruct(n_json.rows[i].assets[k])
                        => IsNone(n_dicts.items[i].assets, k)

\* ------------------------------------ the directory the Parquet entry makes
OwnDirectory ==
    /\ InParquet
    /\ p_args.strategy = "ChunksToDisk"
    /\ p_args.tmpdir = "none"

\* C28: when parse_stac_items_to_parquet makes the ChunksToDisk directory
\* itself, the directory and its spill files exist for as long as the writer
\* pulls batches: it is not removed before the last batch was read and
\* written.
C28_DirectoryOutlivesWriter ==
    OwnDirectory =>
        /\ p_pc = "stream" =>
              /\ p_tmp = "own"
              /\ \A k \in 0..(p_cnt - 1) : k \in DOMAIN p_dir
        /\ p_tmp = "removed" =>
              /\ p_held = <<>>
              /\ p_err = "" => Len(p_out) = p_cnt

\* the directory was removed after the writer had written every chunk
C28_Witness ==
    /\ OwnDirectory
    /\ p_tmp = "removed"
    /\ p_err = ""
    /\ p_cnt >= 2
    /\ Len(p_out) = p_cnt

\* ------------------------------------------------- the ranges of the chunks
\* the byte of the file at an offset
ByteAt(o) == f_file[o + 1]

\* the offset right after a range
EndOf(r) == r.offset + r.length

\* C29: the ranges find_json_chunks returns are whole records: the first
\* starts at byte 0, every length is >= 0, every range but the last ends
\* right before a newline delimiter and the next range starts right after
\* that delimiter (so the ranges are disjoint and in increasing order), and
\* the last range ends at the file length.
C29_WholeRecordRanges ==
    f_pc = "done" =>
        /\ f_ranges[1].offset = 0
        /\ \A i \in DOMAIN f_ranges : f_ranges[i].length >= 0
        /\ \A i \in 1..(Len(f_ranges) - 1) :
              /\ EndOf(f_ranges[i]) < Len(f_file)
              /\ ByteAt(EndOf(f_ranges[i])) = "NL"
              /\ f_ranges[i + 1].offset = EndOf(f_ranges[i]) + 1
        /\ EndOf(f_ranges[Len(f_ranges)]) = Len(f_file)

\* whether a delimiter is found in the first window read at offset o
InFirstWindow(o) == Find(ReadBytes(f_file, o, DELIMITER_SEEK_SIZE)) # -1

\* every search so far has found the delimiter in its first window
FirstWindowOnly ==
    \A i \in DOMAIN f_ranges :
        i < Len(f_ranges) \/ f_pc # "done"
            => InFirstWindow(f_ranges[i].offset + DEFAULT_JSON_CHUNK_SIZE)

\* the ranges are as C29 says when no search went past its first window
C29_FirstWindowRanges == FirstWindowOnly => C29_WholeRecordRanges

\* C30: find_json_chunks terminates on every finite file, also when the
\* last record has no trailing newline and when no delimiter occurs within
\* one seek window after a chunk boundary, or at all before the end of the
\* file.
C30_Terminates == <>(f_pc \in {"done", "raised"})
====
